---- MODULE Spec2Model ----
(***************************************************************************)
(* A model of the context-propagation core (ReactFiberNewContext), the     *)
(* context constructor (ReactContext) and the DevTools hook integration    *)
(* (ReactFiberDevToolsHook) of this repository.                            *)
(*                                                                         *)
(* JavaScript values that live in number-typed slots are encoded as        *)
(* integers: numbers >= 0 are themselves, and undefined / false / true /   *)
(* null are the negative codes below.                                      *)
(***************************************************************************)
EXTENDS Integers, Sequences, FiniteSets, TLC

Undefined == 0 - 1
False == 0 - 2
True == 0 - 3
Null == 0 - 4

\* ------------------------------------------------------------------ bounds
\* SpecContext: providers pushed and not yet popped, and dependency records.
MaxDepth == 2
MaxStackDeps == 1
\* SpecRead: dependency records of the rendering fiber, and providers pushed.
MaxDeps == 2
MaxReadDepth == 1
\* SpecAnyPop: providers pushed and not yet popped.
MaxAnyDepth == 2
\* SpecHook: console.error calls made.
MaxLogs == 3
\* SpecPropagate: fibers of a tree, and fibers of a chain with free times.
MaxFibers == 4
MaxChain == 3
\* SpecUpdates: updates in the list handed to processUpdates.
MaxUpdates == 2
\* SpecTransform: call expressions in the transformed program.
MaxCalls == 2
\* SpecRenderers: providers pushed and not popped, per renderer.
MaxRendererDepth == 2
\* SpecWalk: fibers in a tree.
MaxWalkFibers == 4
\* SpecEmit: handlers registered for the event "renderer".
MaxListeners == 3
\* SpecInject: hook.inject calls.
MaxInjects == 3
\* SpecInstall, SpecTolerate: hook.inject calls, and handlers of one event.
MaxHookInjects == 1
MaxHandlers == 1
\* SpecRender: roots that mountContainer returns, and children of an element.
MaxRoots == 3
MaxChildren == 2
\* SpecText: text nodes between the comments of a text component.
MaxBetween == 2

\* --------------------------------------------------------------- constants
MAX_SIGNED_31_BIT_INT == 1073741823
NoWork == 0

\* The JS `&` of two 31-bit values; undefined (and every other non-number
\* code) converts to 0.
RECURSIVE BitAnd(_, _)
BitAnd(a, b) ==
    IF a <= 0 \/ b <= 0 THEN 0
    ELSE (a % 2) * (b % 2) + 2 * BitAnd(a \div 2, b \div 2)

\* ---------------------------------------------------------------- universe
Renderers == {"primary", "secondary"}
Contexts == {"A", "B"}
NoContext == "none"
\* createContext(defaultValue): the default value of each context.
DefaultValue(c) == 0
\* pendingProps.value of the provider fibers.
ProviderValues == {1, 2}
\* changedBits arguments of pushProvider.
PushBits == {0, 3}
\* A provider fiber: type._context and pendingProps.value.
ProviderFibers == [context : Contexts, value : ProviderValues]
\* The fibers that render (class and function components, consumers).
ReadFibers == {"f1"}
NoFiber == "null"
\* observedBits arguments of readContext: void | number | boolean.
ObservedBitsArgs == {Undefined, False, True, 0, 1, MAX_SIGNED_31_BIT_INT}

VARIABLES
    contexts,                       \* the ReactContext objects
    valueCursor,                    \* valueCursor.current, per renderer
    changedBitsCursor,              \* changedBitsCursor.current, per renderer
    valueStack,                     \* ReactFiberStack's valueStack, per renderer
    currentlyRenderingFiber,
    lastContextDependency,
    lastContextWithAllBitsObserved,
    firstContextDependency,         \* per renderer and fiber: the dependency list
    active,                         \* the renderers that run in this process
    open,                           \* history: the providers pushed and not popped
    nested,                         \* history: every pop so far was LIFO
    lastCall,                       \* history: the last call and its outcome
    cb,                             \* a calculateChangedBits call: inputs, result
    DEV,                            \* __DEV__, a constant of the build
    hook,                           \* __REACT_DEVTOOLS_GLOBAL_HOOK__
    onScheduleFiberRoot,
    rendererID,
    onCommitFiberRoot,
    onCommitFiberUnmount,
    hasLoggedError,
    errorLogs,                      \* history: console.error calls made
    hookCall,                       \* history: the last hook-side call
    tree,                           \* the fiber tree: shape, tags, types, lists
    expirationTime,                 \* fiber.expirationTime, per fiber
    childExpirationTime,            \* fiber.childExpirationTime, per fiber
    returnOf,                       \* fiber.return, per fiber
    walk,                           \* the propagateContextChange call: its place
    before,                         \* history: the times when the call began
    globalHook,                     \* target.__REACT_DEVTOOLS_GLOBAL_HOOK__
    hooksCreated,                   \* history: hook objects created so far
    consoleOverrides,               \* overrides around console.error/warn/trace
    uidCounter,                     \* installHook: uidCounter
    renderers,                      \* installHook: renderers (a Map)
    rendererInterfaces,             \* installHook: rendererInterfaces (its keys)
    listeners,                      \* installHook: listeners
    fiberRoots,                     \* installHook: fiberRoots
    injectCalls,                    \* history: the hook.inject calls so far
    installCall,                    \* history: the last call on the hook
    eventsEnabled,                  \* ReactDOMFiber: eventsEnabled
    selectionInformation,           \* ReactDOMFiber: selectionInformation
    emitterEnabled,                 \* ReactBrowserEventEmitter's enabled flag
    domSelection,                   \* the selection the document has now
    commit,                         \* history: the commit and what it saved
    hostUpdate,                     \* history: the last prepareUpdate and its commit
    childNodes,                     \* parentNode.childNodes, in document order
    updates,                        \* processUpdates: updates
    k_,                             \* processUpdates: k, and where the call is
    applied,                        \* history: the updates applied, in order
    NODE_ENV,                       \* process.env.NODE_ENV of the build
    program,                        \* the call expressions the transform visits
    warned,                         \* console.warn: the messages warned about
    requiresInserted,               \* inserted require('reactProdInvariant')s
    emitting,                       \* a hook.emit call: its place in the map loop
    targetConsole,                  \* console: each method, as its layers
    unpatchConsoleCallbacks,        \* installHook: unpatchConsoleCallbacks
    isRunningDuringStrictModeInvocation,
    settings,                       \* hook.settings
    IS_FIREFOX,                     \* __IS_FIREFOX__ of the build
    patchedFrom,                    \* history: the console when it was patched
    consoleCall,                    \* history: the last console-side call
    reactRootContainer,             \* node._reactRootContainer, per node
    containerChildren,              \* how many children an element has
    rootsCreated,                   \* roots that mountContainer has returned
    liveRoots,                      \* history: roots mounted and not unmounted
    containerHistory,               \* history: what was last done with a node
    warnedUnstableUse,              \* ReactDOMFiber: warned
    renderCall,                     \* history: the last ReactDOM call
    nodeValue,                      \* the text of each text node
    replaceCall                     \* history: the last replaceDelimitedText

ctxVars == <<contexts, valueCursor, changedBitsCursor, valueStack,
             currentlyRenderingFiber, lastContextDependency,
             lastContextWithAllBitsObserved, firstContextDependency,
             active, open, nested, lastCall>>

hookVars == <<DEV, hook, onScheduleFiberRoot, rendererID, onCommitFiberRoot,
              onCommitFiberUnmount, hasLoggedError, errorLogs, hookCall>>

treeVars == <<tree, expirationTime, childExpirationTime, returnOf, walk, before>>

installVars == <<globalHook, hooksCreated, consoleOverrides, uidCounter,
                 renderers, rendererInterfaces, listeners, fiberRoots,
                 injectCalls, installCall>>

\* The state of the parts that follow the fiber tree.
domVars == <<eventsEnabled, selectionInformation, emitterEnabled, domSelection,
             commit, hostUpdate>>

opsVars == <<childNodes, updates, k_, applied>>

transformVars == <<NODE_ENV, program, warned, requiresInserted>>

emitVars == <<emitting>>

\* The console state that installHook leaves alone.
consoleRest == <<unpatchConsoleCallbacks, isRunningDuringStrictModeInvocation,
                 settings, IS_FIREFOX, patchedFrom, consoleCall>>

consoleVars == <<targetConsole, consoleRest>>

renderVars == <<reactRootContainer, containerChildren, rootsCreated,
                liveRoots, containerHistory, warnedUnstableUse, renderCall>>

textVars == <<nodeValue, replaceCall>>

laterVars == <<installVars, domVars, opsVars, transformVars, emitVars,
               consoleVars, renderVars, textVars>>

\* The state of the parts up to the fiber tree.
coreVars == <<ctxVars, cb, hookVars, treeVars>>

vars == <<coreVars, laterVars>>

\* ReactFiberHostConfig.isPrimaryRenderer, a constant of each renderer build.
isPrimaryRenderer(r) == r = "primary"

\* createContext(defaultValue, calculateChangedBits): the new context object.
\* _changedBits and _changedBits2 are not set by createContext.
createContext(defaultValue) ==
    [currentValue |-> defaultValue,
     currentValue2 |-> defaultValue,
     changedBits |-> Undefined,
     changedBits2 |-> Undefined]

\* isPrimaryRenderer ? context._currentValue : context._currentValue2
CurrentValueOf(ctxs, r, c) ==
    IF isPrimaryRenderer(r) THEN ctxs[c].currentValue ELSE ctxs[c].currentValue2

\* isPrimaryRenderer ? context._changedBits : context._changedBits2
ChangedBitsOf(ctxs, r, c) ==
    IF isPrimaryRenderer(r) THEN ctxs[c].changedBits ELSE ctxs[c].changedBits2

\* ------------------------------------------------------- ReactFiberStack
\* A cursor's value carries, as history, the context it was saved from.
Saved(v, c) == [v |-> v, from |-> c]

\* createCursor(defaultValue)
createCursor(defaultValue) == Saved(defaultValue, NoContext)

\* push(cursor, value, fiber): the old cursor value goes on the stack.
push(stack, current, value) ==
    [stack |-> Append(stack, current), current |-> value]

\* pop(cursor, fiber): the cursor takes the top of the stack.
pop(stack, current) ==
    IF Len(stack) = 0
    THEN [stack |-> stack, current |-> current]
    ELSE [stack |-> SubSeq(stack, 1, Len(stack) - 1),
          current |-> stack[Len(stack)]]

\* History: the last call, its outcome, and for a popProvider the contexts
\* the written value and bits were saved from and what its push had replaced.
Call(op, context, ret, threw, appended, fromValue, fromBits, prevValue, prevBits) ==
    [op |-> op, context |-> context, ret |-> ret, threw |-> threw,
     appended |-> appended, fromValue |-> fromValue, fromBits |-> fromBits,
     prevValue |-> prevValue, prevBits |-> prevBits]

\* A call that is no popProvider.
PlainCall(op, context, ret, threw, appended) ==
    Call(op, context, ret, threw, appended, NoContext, NoContext,
         Undefined, Undefined)

\* --------------------------------------------------------- pushProvider
\* Mutant: the new value is installed in the other renderer's slot.
InstalledWrongSlot(ctxs, r, c, value, changedBits) ==
    IF isPrimaryRenderer(r)
    THEN [ctxs EXCEPT ![c].currentValue2 = value, ![c].changedBits2 = changedBits]
    ELSE [ctxs EXCEPT ![c].currentValue = value, ![c].changedBits = changedBits]

\* context._currentValue = providerFiber.pendingProps.value;
\* context._changedBits = changedBits   (or the secondary fields)
Installed(ctxs, r, c, value, changedBits) ==
    IF isPrimaryRenderer(r)
    THEN [ctxs EXCEPT ![c].currentValue = value, ![c].changedBits = changedBits]
    ELSE [ctxs EXCEPT ![c].currentValue2 = value, ![c].changedBits2 = changedBits]

pushProvider(r, providerFiber, changedBits) ==
    LET context == providerFiber.context
        oldBits == ChangedBitsOf(contexts, r, context)
        oldValue == CurrentValueOf(contexts, r, context)
        p1 == push(valueStack[r], changedBitsCursor[r], Saved(oldBits, context))
        p2 == push(p1.stack, valueCursor[r], Saved(oldValue, context))
    IN  /\ valueStack' = [valueStack EXCEPT ![r] = p2.stack]
        /\ changedBitsCursor' = [changedBitsCursor EXCEPT ![r] = p1.current]
        /\ valueCursor' = [valueCursor EXCEPT ![r] = p2.current]
        /\ contexts' = Installed(contexts, r, context,
                                 providerFiber.value, changedBits)
        /\ open' = [open EXCEPT ![r] = Append(@,
                       [context |-> context, value |-> providerFiber.value,
                        bits |-> changedBits,
                        prevValue |-> oldValue, prevBits |-> oldBits])]
        /\ lastCall' = PlainCall("pushProvider", context, Undefined, FALSE, FALSE)
        /\ UNCHANGED <<currentlyRenderingFiber, lastContextDependency,
                       lastContextWithAllBitsObserved, firstContextDependency,
                       active, nested>>

\* ---------------------------------------------------------- popProvider
\* Mutant: the saved changed-bits are not written back.
RestoredValueOnly(ctxs, r, c, currentValue, changedBits) ==
    IF isPrimaryRenderer(r)
    THEN [ctxs EXCEPT ![c].currentValue = currentValue]
    ELSE [ctxs EXCEPT ![c].currentValue2 = currentValue]

\* context._currentValue = currentValue; context._changedBits = changedBits
Restored(ctxs, r, c, currentValue, changedBits) ==
    IF isPrimaryRenderer(r)
    THEN [ctxs EXCEPT ![c].currentValue = currentValue,
                      ![c].changedBits = changedBits]
    ELSE [ctxs EXCEPT ![c].currentValue2 = currentValue,
                      ![c].changedBits2 = changedBits]

\* Mutant: the cursors are read after they are popped.
PoppedValueAfterPop(current, afterPop) == afterPop

\* const changedBits = changedBitsCursor.current; const currentValue =
\* valueCursor.current: the cursors are read before they are popped.
PoppedValue(current, afterPop) == current

\* Sequence s without its i-th element.
RemoveAt(s, i) == SubSeq(s, 1, i - 1) \o SubSeq(s, i + 1, Len(s))

\* popProvider(providerFiber), where providerFiber is the i-th provider that
\* is pushed and not yet popped (the last one when the caller nests properly).
popProvider(r, i) ==
    LET providerFiber == open[r][i]
        q1 == pop(valueStack[r], valueCursor[r])
        q2 == pop(q1.stack, changedBitsCursor[r])
        changedBits == PoppedValue(changedBitsCursor[r], q2.current)
        currentValue == PoppedValue(valueCursor[r], q1.current)
        context == providerFiber.context
    IN  /\ valueStack' = [valueStack EXCEPT ![r] = q2.stack]
        /\ valueCursor' = [valueCursor EXCEPT ![r] = q1.current]
        /\ changedBitsCursor' = [changedBitsCursor EXCEPT ![r] = q2.current]
        /\ contexts' = Restored(contexts, r, context,
                                currentValue.v, changedBits.v)
        /\ open' = [open EXCEPT ![r] = RemoveAt(@, i)]
        /\ nested' = [nested EXCEPT ![r] = @ /\ i = Len(open[r])]
        /\ lastCall' = Call("popProvider", context, Undefined, FALSE, FALSE,
                            currentValue.from, changedBits.from,
                            providerFiber.prevValue, providerFiber.prevBits)
        /\ UNCHANGED <<currentlyRenderingFiber, lastContextDependency,
                       lastContextWithAllBitsObserved, firstContextDependency,
                       active>>

\* ----------------------------------------------- resetContextDependences
resetContextDependences(r) ==
    /\ currentlyRenderingFiber' = [currentlyRenderingFiber EXCEPT ![r] = NoFiber]
    /\ lastContextDependency' = [lastContextDependency EXCEPT ![r] = Null]
    /\ lastContextWithAllBitsObserved' =
           [lastContextWithAllBitsObserved EXCEPT ![r] = NoContext]
    /\ lastCall' = PlainCall("resetContextDependences", NoContext, Undefined,
                           FALSE, FALSE)
    /\ UNCHANGED <<contexts, valueCursor, changedBitsCursor, valueStack,
                   firstContextDependency, active, open, nested>>

\* ------------------------------------------------- prepareToReadContext
\* The do-while over the old dependency list: some record's context has
\* pending changed bits that the record observes.
\* Mutant: only the first record of the old list is looked at.
hasPendingContextFirstOnly(ctxs, r, deps) ==
    LET changedBits == ChangedBitsOf(ctxs, r, deps[1].context)
    IN  changedBits # 0 /\ BitAnd(changedBits, deps[1].observedBits) # 0

hasPendingContext(ctxs, r, deps) ==
    \E k \in 1..Len(deps) :
        LET changedBits == ChangedBitsOf(ctxs, r, deps[k].context)
        IN  changedBits # 0 /\ BitAnd(changedBits, deps[k].observedBits) # 0

\* Mutant: the old list is kept, the new records follow it.
prepareToReadContextKeepingList(r, workInProgress) ==
    LET first == firstContextDependency[r][workInProgress]
    IN  /\ currentlyRenderingFiber' =
               [currentlyRenderingFiber EXCEPT ![r] = workInProgress]
        /\ lastContextDependency' =
               [lastContextDependency EXCEPT
                   ![r] = IF first = <<>> THEN Null ELSE Len(first)]
        /\ lastContextWithAllBitsObserved' =
               [lastContextWithAllBitsObserved EXCEPT ![r] = NoContext]
        /\ lastCall' = PlainCall("prepareToReadContext", NoContext,
                                 IF first # <<>> /\ hasPendingContext(contexts, r, first)
                                 THEN True ELSE False,
                                 FALSE, FALSE)
        /\ UNCHANGED <<contexts, valueCursor, changedBitsCursor, valueStack,
                       active, open, nested, firstContextDependency>>

prepareToReadContext(r, workInProgress) ==
    LET first == firstContextDependency[r][workInProgress]
    IN  /\ currentlyRenderingFiber' =
               [currentlyRenderingFiber EXCEPT ![r] = workInProgress]
        /\ lastContextDependency' = [lastContextDependency EXCEPT ![r] = Null]
        /\ lastContextWithAllBitsObserved' =
               [lastContextWithAllBitsObserved EXCEPT ![r] = NoContext]
        /\ firstContextDependency' =
               [firstContextDependency EXCEPT ![r][workInProgress] = <<>>]
        /\ lastCall' = PlainCall("prepareToReadContext", NoContext,
                                 IF first # <<>> /\ hasPendingContext(contexts, r, first)
                                 THEN True ELSE False,
                                 FALSE, FALSE)
        /\ UNCHANGED <<contexts, valueCursor, changedBitsCursor, valueStack,
                       active, open, nested>>

\* ---------------------------------------------------------- readContext
\* typeof observedBits !== 'number' || observedBits === maxSigned31BitInt
ObservesAllBits(observedBits) ==
    observedBits < 0 \/ observedBits = MAX_SIGNED_31_BIT_INT

\* Mutant: no read is skipped because of an earlier all-bits read.
SkipsRecordNever(r, context, observedBits) ==
    observedBits = False \/ observedBits = 0

\* The first two branches: nothing is recorded for this read.
SkipsRecord(r, context, observedBits) ==
    \/ lastContextWithAllBitsObserved[r] = context
    \/ observedBits = False
    \/ observedBits = 0

\* The invariant() of line 309 fails.
ReadThrows(r, context, observedBits) ==
    /\ ~SkipsRecord(r, context, observedBits)
    /\ lastContextDependency[r] = Null
    /\ currentlyRenderingFiber[r] = NoFiber

\* Mutant: the installed value of the primary slot, whatever the renderer.
ReadValuePrimary(ctxs, r, context) == ctxs[context].currentValue

\* return isPrimaryRenderer ? context._currentValue : context._currentValue2
ReadValue(ctxs, r, context) == CurrentValueOf(ctxs, r, context)

readContext(r, context, observedBits) ==
    LET skip == SkipsRecord(r, context, observedBits)
        throws == ReadThrows(r, context, observedBits)
        resolvedObservedBits ==
            IF ObservesAllBits(observedBits) THEN MAX_SIGNED_31_BIT_INT
            ELSE observedBits
        contextItem == [context |-> context, observedBits |-> resolvedObservedBits]
        fiber == currentlyRenderingFiber[r]
        appends == ~skip /\ ~throws
    IN  /\ lastContextWithAllBitsObserved' =
               IF ~skip /\ ObservesAllBits(observedBits)
               THEN [lastContextWithAllBitsObserved EXCEPT ![r] = context]
               ELSE lastContextWithAllBitsObserved
        /\ firstContextDependency' =
               IF ~appends THEN firstContextDependency
               ELSE IF lastContextDependency[r] = Null
               THEN [firstContextDependency EXCEPT ![r][fiber] = <<contextItem>>]
               ELSE [firstContextDependency EXCEPT
                        ![r][fiber] = Append(@, contextItem)]
        /\ lastContextDependency' =
               IF ~appends THEN lastContextDependency
               ELSE [lastContextDependency EXCEPT
                        ![r] = Len(firstContextDependency'[r][fiber])]
        /\ lastCall' = PlainCall("readContext", context,
                                 IF throws THEN Undefined
                                 ELSE ReadValue(contexts, r, context),
                                 throws, appends)
        /\ UNCHANGED <<contexts, valueCursor, changedBitsCursor, valueStack,
                       currentlyRenderingFiber, active, open, nested>>

\* ------------------------------------------------- calculateChangedBits
\* The values a provider may be given, as JavaScript sees them.
JSValues == {"NaN", "+0", "-0", "1", "2", "objA", "objB", "undefined"}

\* What a context's _calculateChangedBits function may return. Each is a
\* 32-bit integer, which `| 0` leaves as it is.
ComparatorResults == {0, 1, MAX_SIGNED_31_BIT_INT, MAX_SIGNED_31_BIT_INT + 1, 0 - 1}

\* The contexts: _calculateChangedBits is null, or a function with its result
\* on the pair of values of the call.
ComparatorContexts ==
    {[hasComparator |-> FALSE, comparatorResult |-> 0]}
        \cup [hasComparator : {TRUE}, comparatorResult : ComparatorResults]

\* a === b: NaN equals nothing, and +0 equals -0.
StrictEquals(a, b) == (a = b /\ a # "NaN") \/ {a, b} = {"+0", "-0"}

\* 1 / v
Reciprocal(v) ==
    CASE v = "+0" -> "+Infinity"
      [] v = "-0" -> "-Infinity"
      [] v = "1" -> "1"
      [] v = "2" -> "0.5"
      [] OTHER -> "NaN"

\* changedBits | 0, on a 32-bit integer.
ToInt32(n) == n

\* Mutant: the values are compared with === alone.
NoChangeStrictEquals(oldValue, newValue) == StrictEquals(oldValue, newValue)

\* The inlined Object.is polyfill.
NoChange(oldValue, newValue) ==
    \/ /\ StrictEquals(oldValue, newValue)
       /\ \/ ~StrictEquals(oldValue, "+0")
          \/ StrictEquals(Reciprocal(oldValue), Reciprocal(newValue))
    \/ ~StrictEquals(oldValue, oldValue) /\ ~StrictEquals(newValue, newValue)

\* The result, and whether context._calculateChangedBits was called.
calculateChangedBits(context, newValue, oldValue) ==
    IF NoChange(oldValue, newValue)
    THEN [result |-> 0, consulted |-> FALSE]
    ELSE [result |-> ToInt32(IF context.hasComparator
                             THEN context.comparatorResult
                             ELSE MAX_SIGNED_31_BIT_INT),
          consulted |-> context.hasComparator]

CbIdle == cb = [state |-> "none"]

CbInit ==
    cb \in [state : {"called"}, context : ComparatorContexts,
            newValue : JSValues, oldValue : JSValues]

CalculateStep ==
    /\ cb.state = "called"
    /\ LET out == calculateChangedBits(cb.context, cb.newValue, cb.oldValue)
       IN  cb' = [state |-> "returned", context |-> cb.context,
                  newValue |-> cb.newValue, oldValue |-> cb.oldValue,
                  result |-> out.result, consulted |-> out.consulted]
    /\ UNCHANGED <<ctxVars, hookVars, treeVars, laterVars>>

\* ------------------------------------------------- ReactFiberDevToolsHook
\* What a field that may hold a function holds.
Function == "function"
NotAFunction == "undefined"
\* let onCommitFiberRoot = null (and the like): no function either.
NullFunction == "null"

\* The global hooks: none, or an object whose optional fields may be absent.
Hooks ==
    {[present |-> FALSE, isDisabled |-> FALSE, supportsFiber |-> FALSE,
      onScheduleFiberRoot |-> NotAFunction, onCommitFiberRoot |-> NotAFunction,
      onCommitFiberUnmount |-> NotAFunction]}
        \cup [present : {TRUE}, isDisabled : BOOLEAN, supportsFiber : BOOLEAN,
              onScheduleFiberRoot : {Function, NotAFunction},
              onCommitFiberRoot : {Function, NotAFunction},
              onCommitFiberUnmount : {Function, NotAFunction}]

\* The ids hook.inject may return.
RendererIDs == {1, 2}

\* Mutant: no try/catch, an exception of the body reaches the caller.
NoTryCatch(bodyThrew) == [threw |-> bodyThrew, caught |-> FALSE]

\* try { body } catch (err) { ... }: the exception stops here.
TryCatch(bodyThrew) == [threw |-> FALSE, caught |-> bodyThrew]

\* History: the last call, whether it threw to its caller, what it returned,
\* and how many observer callbacks it invoked.
HookCall(op, threw, caught, ret, calls) ==
    [op |-> op, threw |-> threw, caught |-> caught, ret |-> ret,
     calls |-> calls]

\* Mutant: the callbacks are stored before hook.inject is called.
StoredBeforeInject(injectThrows, old, new) == new

\* An assignment that follows hook.inject(internals) in the try block: it
\* runs only when inject returned.
StoredAfterInject(injectThrows, old, new) ==
    IF injectThrows THEN old ELSE new

\* injectInternals(internals), where hook.inject throws or returns id.
injectInternals(injectThrows, id) ==
    IF ~hook.present
    THEN /\ hookCall' = HookCall("injectInternals", FALSE, FALSE, False, 0)
         /\ UNCHANGED <<DEV, hook, onScheduleFiberRoot, rendererID,
                        onCommitFiberRoot, onCommitFiberUnmount,
                        hasLoggedError, errorLogs>>
    ELSE IF hook.isDisabled \/ ~hook.supportsFiber
    THEN /\ hookCall' = HookCall("injectInternals", FALSE, FALSE, True, 0)
         /\ UNCHANGED <<DEV, hook, onScheduleFiberRoot, rendererID,
                        onCommitFiberRoot, onCommitFiberUnmount,
                        hasLoggedError, errorLogs>>
    ELSE LET try == TryCatch(injectThrows)
         IN  /\ rendererID' = IF injectThrows THEN rendererID ELSE id
             /\ onScheduleFiberRoot' =
                    IF DEV /\ hook.onScheduleFiberRoot = Function
                    THEN StoredAfterInject(injectThrows, onScheduleFiberRoot,
                                           hook.onScheduleFiberRoot)
                    ELSE onScheduleFiberRoot
             /\ onCommitFiberRoot' =
                    StoredAfterInject(injectThrows, onCommitFiberRoot,
                                      hook.onCommitFiberRoot)
             /\ onCommitFiberUnmount' =
                    StoredAfterInject(injectThrows, onCommitFiberUnmount,
                                      hook.onCommitFiberUnmount)
             /\ errorLogs' = IF try.caught /\ DEV THEN errorLogs + 1 ELSE errorLogs
             /\ hookCall' = HookCall("injectInternals", try.threw, try.caught,
                                     IF try.threw THEN Undefined ELSE True, 1)
             /\ UNCHANGED <<DEV, hook, hasLoggedError>>

\* The catch blocks of onScheduleRoot, onCommitRoot and onCommitUnmount:
\* the error is logged unless one was logged before.
LogsOnce(caught) == caught /\ DEV /\ ~hasLoggedError

\* onScheduleRoot(root, children), where the observer throws or returns.
onScheduleRoot(observerThrows) ==
    IF DEV /\ onScheduleFiberRoot = Function
    THEN LET try == TryCatch(observerThrows)
         IN  /\ hasLoggedError' = (hasLoggedError \/ LogsOnce(try.caught))
             /\ errorLogs' = IF LogsOnce(try.caught) THEN errorLogs + 1
                             ELSE errorLogs
             /\ hookCall' = HookCall("onScheduleRoot", try.threw, try.caught,
                                     Undefined, 1)
             /\ UNCHANGED <<DEV, hook, onScheduleFiberRoot, rendererID,
                            onCommitFiberRoot, onCommitFiberUnmount>>
    ELSE /\ hookCall' = HookCall("onScheduleRoot", FALSE, FALSE, Undefined, 0)
         /\ UNCHANGED <<DEV, hook, onScheduleFiberRoot, rendererID,
                        onCommitFiberRoot, onCommitFiberUnmount,
                        hasLoggedError, errorLogs>>

\* onCommitRoot(root, expirationTime), where the body of the try (reading
\* root.current.effectTag, the priority inference, the observer) throws or not.
onCommitRoot(observerThrows) ==
    IF onCommitFiberRoot = Function
    THEN LET try == TryCatch(observerThrows)
         IN  /\ hasLoggedError' = (hasLoggedError \/ LogsOnce(try.caught))
             /\ errorLogs' = IF LogsOnce(try.caught) THEN errorLogs + 1
                             ELSE errorLogs
             /\ hookCall' = HookCall("onCommitRoot", try.threw, try.caught,
                                     Undefined, 1)
             /\ UNCHANGED <<DEV, hook, onScheduleFiberRoot, rendererID,
                            onCommitFiberRoot, onCommitFiberUnmount>>
    ELSE /\ hookCall' = HookCall("onCommitRoot", FALSE, FALSE, Undefined, 0)
         /\ UNCHANGED <<DEV, hook, onScheduleFiberRoot, rendererID,
                        onCommitFiberRoot, onCommitFiberUnmount,
                        hasLoggedError, errorLogs>>

\* onCommitUnmount(fiber), where the observer throws or returns.
onCommitUnmount(observerThrows) ==
    IF onCommitFiberUnmount = Function
    THEN LET try == TryCatch(observerThrows)
         IN  /\ hasLoggedError' = (hasLoggedError \/ LogsOnce(try.caught))
             /\ errorLogs' = IF LogsOnce(try.caught) THEN errorLogs + 1
                             ELSE errorLogs
             /\ hookCall' = HookCall("onCommitUnmount", try.threw, try.caught,
                                     Undefined, 1)
             /\ UNCHANGED <<DEV, hook, onScheduleFiberRoot, rendererID,
                            onCommitFiberRoot, onCommitFiberUnmount>>
    ELSE /\ hookCall' = HookCall("onCommitUnmount", FALSE, FALSE, Undefined, 0)
         /\ UNCHANGED <<DEV, hook, onScheduleFiberRoot, rendererID,
                        onCommitFiberRoot, onCommitFiberUnmount,
                        hasLoggedError, errorLogs>>

HookUnused ==
    /\ hook = [present |-> FALSE, isDisabled |-> FALSE, supportsFiber |-> FALSE,
               onScheduleFiberRoot |-> NotAFunction,
               onCommitFiberRoot |-> NotAFunction,
               onCommitFiberUnmount |-> NotAFunction]
    /\ onScheduleFiberRoot = NullFunction
    /\ rendererID = Null
    /\ onCommitFiberRoot = NullFunction
    /\ onCommitFiberUnmount = NullFunction
    /\ hasLoggedError = FALSE
    /\ errorLogs = 0
    /\ hookCall = HookCall("init", FALSE, FALSE, Undefined, 0)

HookIdle == DEV = TRUE /\ HookUnused

HookInit ==
    /\ DEV \in BOOLEAN
    /\ hook \in Hooks
    /\ onScheduleFiberRoot = NullFunction
    /\ rendererID = Null
    /\ onCommitFiberRoot = NullFunction
    /\ onCommitFiberUnmount = NullFunction
    /\ hasLoggedError = FALSE
    /\ errorLogs = 0
    /\ hookCall = HookCall("init", FALSE, FALSE, Undefined, 0)

\* ------------------------------------------------ propagateContextChange
\* Fiber references: the fiber at tree position i is i, its alternate is -i,
\* and null is 0. Position 1 is the root and position 2 is workInProgress,
\* the provider whose value changed.
NullFiber == 0
RootFiber == 1
WorkInProgress == 2

\* Expiration times: NoWork, and two times of which the smaller is the more
\* urgent; the render's expiration time is one of the two.
Times == {NoWork, 1, 2}
RenderTimes == {1, 2}

\* The context of workInProgress and the changed bits of the call.
ChangedContext == "A"
ChangedBitsArgs == {0, 1}

\* The kinds of fiber below the root: tag, type and dependency list. Only
\* fibers that render read contexts, so a provider has no dependency list.
Dep(c, bits) == [context |-> c, observedBits |-> bits]

FiberKinds ==
    {[tag |-> "HostComponent", type |-> "div", deps |-> <<>>],
     [tag |-> "ContextProvider", type |-> "A.Provider", deps |-> <<>>],
     [tag |-> "ContextProvider", type |-> "B.Provider", deps |-> <<>>],
     [tag |-> "ClassComponent", type |-> "C", deps |-> <<Dep("A", 1)>>],
     [tag |-> "ClassComponent", type |-> "C",
      deps |-> <<Dep("B", MAX_SIGNED_31_BIT_INT), Dep("A", 3)>>],
     [tag |-> "ClassComponent", type |-> "C",
      deps |-> <<Dep("B", MAX_SIGNED_31_BIT_INT), Dep("A", 2)>>]}

RootKind == [tag |-> "HostRoot", type |-> "root", deps |-> <<>>]
ProviderKind == [tag |-> "ContextProvider", type |-> "A.Provider", deps |-> <<>>]
ConsumerKind == [tag |-> "ClassComponent", type |-> "C", deps |-> <<Dep("A", 1)>>]
HostKind == [tag |-> "HostComponent", type |-> "div", deps |-> <<>>]

\* The least element of a set of positions.
Least(S) == CHOOSE i \in S : \A j \in S : i <= j

\* fiber.child, fiber.sibling and fiber.alternate, from the shape of the tree.
Child(f) ==
    IF f <= 0 THEN NullFiber
    ELSE LET cs == {i \in 1..tree.n : tree.parent[i] = f}
         IN  IF cs = {} THEN NullFiber ELSE Least(cs)

Sibling(f) ==
    IF f <= 0 THEN NullFiber
    ELSE LET ss == {i \in 1..tree.n : i > f /\ tree.parent[i] = tree.parent[f]}
         IN  IF ss = {} THEN NullFiber ELSE Least(ss)

Alternate(f) ==
    IF f < 0 THEN 0 - f
    ELSE IF f \in tree.hasAlt THEN 0 - f
    ELSE NullFiber

\* Mutant: every time is replaced by the render's.
NeedsWorkAlways(time, renderExpirationTime) == TRUE

\* Mutant: only a later time is replaced, NoWork is left alone.
NeedsWorkLaterOnly(time, renderExpirationTime) == time > renderExpirationTime

\* time === NoWork || time > renderExpirationTime
NeedsWork(time, renderExpirationTime) ==
    time = NoWork \/ time > renderExpirationTime

\* Mutant: the observed bits must equal the changed bits.
DependencyMatchesEqualBits(dependency, context, changedBits) ==
    dependency.context = context /\ dependency.observedBits = changedBits

\* dependency.context === context &&
\* (dependency.observedBits & changedBits) !== 0
DependencyMatches(dependency, context, changedBits) ==
    /\ dependency.context = context
    /\ BitAnd(dependency.observedBits, changedBits) # 0

\* The while loop over the ancestors: the child expiration times after it.
RECURSIVE ScheduleAncestors(_, _, _, _)
ScheduleAncestors(ce, rets, node, renderExpirationTime) ==
    IF node = NullFiber THEN ce
    ELSE LET alternate == Alternate(node)
             altNeeds == /\ alternate # NullFiber
                         /\ NeedsWork(ce[alternate], renderExpirationTime)
         IN  IF NeedsWork(ce[node], renderExpirationTime)
             THEN ScheduleAncestors(
                      [ce EXCEPT ![node] = renderExpirationTime,
                                 ![alternate] = IF altNeeds
                                                THEN renderExpirationTime ELSE @],
                      rets, rets[node], renderExpirationTime)
             ELSE IF altNeeds
             THEN ScheduleAncestors(
                      [ce EXCEPT ![alternate] = renderExpirationTime],
                      rets, rets[node], renderExpirationTime)
             ELSE ce

\* "Match! Schedule an update on this fiber.": the times after it.
Scheduled(st, fiber, renderExpirationTime) ==
    LET alternate == Alternate(fiber)
        exp1 == IF NeedsWork(st.exp[fiber], renderExpirationTime)
                THEN [st.exp EXCEPT ![fiber] = renderExpirationTime]
                ELSE st.exp
        exp2 == IF /\ alternate # NullFiber
                   /\ NeedsWork(exp1[alternate], renderExpirationTime)
                THEN [exp1 EXCEPT ![alternate] = renderExpirationTime]
                ELSE exp1
    IN  [exp |-> exp2,
         ce |-> ScheduleAncestors(st.ce, st.rets, st.rets[fiber],
                                  renderExpirationTime),
         rets |-> st.rets]

\* The do-while loop over the dependency list of fiber, from record k on.
RECURSIVE VisitDependencies(_, _, _, _)
VisitDependencies(st, fiber, deps, k) ==
    IF k > Len(deps) THEN st
    ELSE VisitDependencies(
             IF DependencyMatches(deps[k], tree.context, tree.changedBits)
             THEN Scheduled(st, fiber, tree.renderExpirationTime)
             ELSE st,
             fiber, deps, k + 1)

\* Mutant: the walk goes below every provider.
BelowProviderAlways(fiber) == Child(fiber)

\* "Don't scan deeper if this is a matching provider"
BelowProvider(fiber) ==
    IF tree.kind[fiber].type = tree.kind[WorkInProgress].type
    THEN NullFiber ELSE Child(fiber)

\* nextFiber after the visit of fiber, before the sibling search.
NextBelow(fiber) ==
    IF tree.kind[fiber].deps # <<>> THEN Child(fiber)
    ELSE IF tree.kind[fiber].tag = "ContextProvider" THEN BelowProvider(fiber)
    ELSE Child(fiber)

\* Mutant: the climb does not stop at workInProgress.
RECURSIVE NextSiblingPastStart(_, _)
NextSiblingPastStart(rets, nextFiber) ==
    IF nextFiber = NullFiber THEN [next |-> NullFiber, rets |-> rets]
    ELSE IF Sibling(nextFiber) # NullFiber
    THEN [next |-> Sibling(nextFiber),
          rets |-> [rets EXCEPT ![Sibling(nextFiber)] = rets[nextFiber]]]
    ELSE NextSiblingPastStart(rets, rets[nextFiber])

\* "No child. Traverse to next sibling.": the next fiber and the return
\* pointers after the loop.
RECURSIVE NextSibling(_, _)
NextSibling(rets, nextFiber) ==
    IF nextFiber = NullFiber THEN [next |-> NullFiber, rets |-> rets]
    ELSE IF nextFiber = WorkInProgress THEN [next |-> NullFiber, rets |-> rets]
    ELSE IF Sibling(nextFiber) # NullFiber
    THEN [next |-> Sibling(nextFiber),
          rets |-> [rets EXCEPT ![Sibling(nextFiber)] = rets[nextFiber]]]
    ELSE NextSibling(rets, rets[nextFiber])

\* The call begins: fiber = workInProgress.child, and its return pointer.
propagateContextChange ==
    /\ walk.pc = "called"
    /\ LET fiber == Child(WorkInProgress)
       IN  /\ returnOf' = IF fiber # NullFiber
                          THEN [returnOf EXCEPT ![fiber] = WorkInProgress]
                          ELSE returnOf
           /\ walk' = [pc |-> IF fiber = NullFiber THEN "returned" ELSE "loop",
                       fiber |-> fiber, visited |-> <<>>]
    /\ UNCHANGED <<tree, expirationTime, childExpirationTime, before>>

\* One turn of the outer while loop: fiber is visited and the next is found.
VisitFiber ==
    /\ walk.pc = "loop"
    /\ LET fiber == walk.fiber
           st == VisitDependencies(
                     [exp |-> expirationTime, ce |-> childExpirationTime,
                      rets |-> returnOf],
                     fiber, tree.kind[fiber].deps, 1)
           below == NextBelow(fiber)
           found == IF below # NullFiber
                    THEN [next |-> below,
                          rets |-> [st.rets EXCEPT ![below] = fiber]]
                    ELSE NextSibling(st.rets, fiber)
       IN  /\ expirationTime' = st.exp
           /\ childExpirationTime' = st.ce
           /\ returnOf' = found.rets
           /\ walk' = [pc |-> IF found.next = NullFiber THEN "returned"
                              ELSE "loop",
                       fiber |-> found.next,
                       visited |-> Append(walk.visited, fiber)]
    /\ UNCHANGED <<tree, before>>

\* The positions on the path from position i up to the root, i included.
RECURSIVE PathToRoot(_, _)
PathToRoot(parent, i) ==
    IF i = 0 THEN {} ELSE {i} \cup PathToRoot(parent, parent[i])

\* The shapes of a tree of n fibers, numbered in document order: the parent
\* of a fiber is the one before it or an ancestor of that one.
Shapes(n) ==
    {p \in [1..n -> 0..(n - 1)] :
        /\ p[RootFiber] = 0
        /\ p[WorkInProgress] = RootFiber
        /\ \A i \in 3..n : p[i] # 0 /\ p[i] \in PathToRoot(p, i - 1)}

\* The chain root > workInProgress > ... > consumer of n fibers.
ChainShape(n) == [i \in 1..n |-> i - 1]

\* The times of a tree whose fibers all wait for the same time e (their
\* alternates for a), and whose child expiration times summarise that.
UniformTimes(n, parent, e, a) ==
    [f \in (0 - n)..n |->
        IF f = 0 THEN [exp |-> NoWork, ce |-> NoWork]
        ELSE LET i == IF f < 0 THEN 0 - f ELSE f
                 t == IF f < 0 THEN a ELSE e
             IN  [exp |-> IF i <= WorkInProgress THEN NoWork ELSE t,
                  ce |-> IF \E j \in 3..n : i \in PathToRoot(parent, parent[j])
                         THEN t ELSE NoWork]]

\* The return pointers when the call begins: to the parent, or (stale) to the
\* parent's alternate where it has one.
ReturnPointers(n, parent, hasAlt, stale) ==
    [f \in (0 - n)..n |->
        IF f = 0 THEN NullFiber
        ELSE LET i == IF f < 0 THEN 0 - f ELSE f
             IN  IF stale /\ i > WorkInProgress /\ parent[i] \in hasAlt
                 THEN 0 - parent[i] ELSE parent[i]]

TreeIdle ==
    /\ tree = [n |-> 0]
    /\ expirationTime = <<>>
    /\ childExpirationTime = <<>>
    /\ returnOf = <<>>
    /\ walk = [pc |-> "none", fiber |-> NullFiber, visited |-> <<>>]
    /\ before = <<>>

\* Trees of every shape and kind of fiber, with uniform times.
InitTrees ==
    \E parent \in Shapes(MaxFibers) :
    \E kinds \in [3..MaxFibers -> FiberKinds] :
    \E e \in Times, a \in Times, alts \in BOOLEAN, stale \in BOOLEAN :
    \E r \in RenderTimes :
        /\ ~alts => (a = NoWork /\ ~stale)
        /\ tree = [n |-> MaxFibers, parent |-> parent,
                   kind |-> [i \in 1..MaxFibers |->
                               IF i = RootFiber THEN RootKind
                               ELSE IF i = WorkInProgress THEN ProviderKind
                               ELSE kinds[i]],
                   hasAlt |-> IF alts THEN 1..MaxFibers ELSE {},
                   context |-> ChangedContext, changedBits |-> 1,
                   renderExpirationTime |-> r]
        /\ expirationTime =
               [f \in (0 - MaxFibers)..MaxFibers |->
                   UniformTimes(MaxFibers, parent, e, a)[f].exp]
        /\ childExpirationTime =
               [f \in (0 - MaxFibers)..MaxFibers |->
                   UniformTimes(MaxFibers, parent, e, a)[f].ce]
        /\ returnOf = ReturnPointers(MaxFibers, parent,
                                     IF alts THEN 1..MaxFibers ELSE {}, stale)

\* A chain down to one consumer, with every time and alternate free.
InitChains ==
    \E hasAlt \in SUBSET (1..MaxChain) :
    \E exps \in [{MaxChain, 0 - MaxChain} -> Times] :
    \E ces \in [{f \in (0 - MaxChain)..MaxChain :
                    f # 0 /\ f # MaxChain /\ f # 0 - MaxChain} -> Times] :
    \E r \in RenderTimes, bits \in ChangedBitsArgs :
        /\ \A i \in 1..MaxChain :
              i \notin hasAlt =>
                  /\ i = MaxChain => exps[0 - i] = NoWork
                  /\ i # MaxChain => ces[0 - i] = NoWork
        /\ tree = [n |-> MaxChain, parent |-> ChainShape(MaxChain),
                   kind |-> [i \in 1..MaxChain |->
                               IF i = RootFiber THEN RootKind
                               ELSE IF i = WorkInProgress THEN ProviderKind
                               ELSE IF i = MaxChain THEN ConsumerKind
                               ELSE HostKind],
                   hasAlt |-> hasAlt,
                   context |-> ChangedContext, changedBits |-> bits,
                   renderExpirationTime |-> r]
        /\ expirationTime =
               [f \in (0 - MaxChain)..MaxChain |->
                   IF f \in DOMAIN exps THEN exps[f] ELSE NoWork]
        /\ childExpirationTime =
               [f \in (0 - MaxChain)..MaxChain |->
                   IF f \in DOMAIN ces THEN ces[f] ELSE NoWork]
        /\ returnOf = ReturnPointers(MaxChain, ChainShape(MaxChain), hasAlt,
                                     FALSE)

TreeInit ==
    /\ InitTrees \/ InitChains
    /\ walk = [pc |-> "called", fiber |-> NullFiber, visited |-> <<>>]
    /\ before = [exp |-> expirationTime, ce |-> childExpirationTime]

\* ------------------------------------------------- the console overrides
\* A console method is the sequence of its layers: the function that was
\* there first, then the overrides that wrap it, outermost last.
Members(s) == {s[i] : i \in DOMAIN s}

ErrorsAndWarningsMethods == <<"error", "trace", "warn">>
StrictModeMethods == <<"group", "groupCollapsed", "info", "log">>
ConsoleMethods == Members(ErrorsAndWarningsMethods) \cup Members(StrictModeMethods)

NativeMethod(method) == <<method>>
NativeConsole == [method \in ConsoleMethods |-> NativeMethod(method)]

ErrorsOverride(originalMethod) == Append(originalMethod, "errorsOverride")
StrictOverride(originalMethod) == Append(originalMethod, "strictOverride")

\* patchConsoleForErrorsAndWarnings(): error, trace and warn are wrapped.
patchConsoleForErrorsAndWarnings(con) ==
    [method \in DOMAIN con |->
        IF method \in Members(ErrorsAndWarningsMethods)
        THEN ErrorsOverride(con[method]) ELSE con[method]]

\* hook.settings: the injected settings, or the defaults.
DefaultSettings ==
    [appendComponentStack |-> TRUE, breakOnConsoleErrors |-> FALSE,
     showInlineWarningsAndErrors |-> FALSE,
     hideConsoleLogsInStrictMode |-> FALSE]

InjectedSettings ==
    [appendComponentStack : BOOLEAN, breakOnConsoleErrors : {FALSE},
     showInlineWarningsAndErrors : BOOLEAN,
     hideConsoleLogsInStrictMode : BOOLEAN]

\* History: the last call on the console side: what the caller passed,
\* whether the call was hidden, the argument lists given to the original
\* method, whether the call threw to its caller, how many errors it left to
\* be thrown from a timer, and how many callbacks it invoked.
ConsoleCall(method, args, hidden, forwarded, threw, deferred, callbacks) ==
    [method |-> method, args |-> args, hidden |-> hidden,
     forwarded |-> forwarded, threw |-> threw, deferred |-> deferred,
     callbacks |-> callbacks]

NoConsoleCall == ConsoleCall("none", <<>>, FALSE, <<>>, FALSE, 0, 0)

\* Mutant: the guard against patching twice is gone.
AlreadyPatchedNever(callbacks) == FALSE

\* unpatchConsoleCallbacks.length > 0
AlreadyPatched(callbacks) == Len(callbacks) > 0

\* patchConsoleForStrictMode()
patchConsoleForStrictMode ==
    IF AlreadyPatched(unpatchConsoleCallbacks)
    THEN UNCHANGED <<targetConsole, unpatchConsoleCallbacks, patchedFrom>>
    ELSE /\ targetConsole' =
                [method \in DOMAIN targetConsole |->
                    IF method \in Members(StrictModeMethods)
                    THEN StrictOverride(targetConsole[method])
                    ELSE targetConsole[method]]
         /\ unpatchConsoleCallbacks' =
                unpatchConsoleCallbacks \o
                [i \in DOMAIN StrictModeMethods |->
                    [method |-> StrictModeMethods[i],
                     originalMethod |-> targetConsole[StrictModeMethods[i]]]]
         /\ patchedFrom' = targetConsole

\* unpatchConsoleCallbacks.forEach(callback => callback())
RECURSIVE RunCallbacks(_, _)
RunCallbacks(con, callbacks) ==
    IF callbacks = <<>> THEN con
    ELSE RunCallbacks(
            [con EXCEPT ![Head(callbacks).method] = Head(callbacks).originalMethod],
            Tail(callbacks))

\* unpatchConsoleForStrictMode()
unpatchConsoleForStrictMode ==
    /\ targetConsole' = RunCallbacks(targetConsole, unpatchConsoleCallbacks)
    /\ unpatchConsoleCallbacks' = <<>>
    /\ UNCHANGED patchedFrom

\* hook.setStrictMode(rendererID, isStrictMode)
setStrictMode(id, isStrictMode) ==
    /\ isRunningDuringStrictModeInvocation' = isStrictMode
    /\ IF isStrictMode THEN patchConsoleForStrictMode
       ELSE unpatchConsoleForStrictMode
    /\ consoleCall' =
            ConsoleCall("setStrictMode",
                        <<IF isStrictMode THEN "true" ELSE "false">>,
                        FALSE, <<>>, FALSE, 0,
                        IF isStrictMode THEN 0 ELSE Len(unpatchConsoleCallbacks))
    /\ UNCHANGED <<settings, IS_FIREFOX>>

\* The values a caller passes to console: strings, and the values below that
\* are no strings.
NullValue == "<null>"
UndefinedValue == "<undefined>"
ObjectValue == "<object>"
FakeError == "<fakeError>"
IsStringValue(v) == v \notin {NullValue, UndefinedValue, ObjectValue, FakeError}

ComponentStackString == "    in App"
AnonymousStackString == "    in App (<anonymous>)"
OtherStackString == "    in Other"

\* PREFIX_REGEX.test(text) || ROW_COLUMN_NUMBER_REGEX.test(text), on the
\* strings of this universe.
isStringComponentStack(text) ==
    text \in {ComponentStackString, AnonymousStackString, OtherStackString}

\* a.replace(frameDiffs, ''), on the strings of this universe.
StripFrameDiffs(text) ==
    IF text = AnonymousStackString THEN ComponentStackString ELSE text

areStackTracesEqual(a, b) == StripFrameDiffs(a) = StripFrameDiffs(b)

\* A message, cut into its text and its % directives.
Tokens(text) ==
    CASE text = "Failed%s" -> <<"Failed", "%s">>
      [] OTHER -> <<text>>

Directives == {"%s", "%o"}

HasDirective(text) == \E i \in DOMAIN Tokens(text) : Tokens(text)[i] \in Directives

RECURSIVE JoinTokens(_)
JoinTokens(tokens) ==
    IF tokens = <<>> THEN "" ELSE Head(tokens) \o JoinTokens(Tail(tokens))

\* arg.toString(), for the values that have one.
toString(v) ==
    CASE v = ObjectValue -> "[object Object]"
      [] v = FakeError -> "Component Stack"
      [] OTHER -> v

Formatted(threw, args) == [threw |-> threw, args |-> args]

\* The loop of formatConsoleArguments over the message: %o keeps its
\* argument, %s splices its argument out and appends arg.toString(), which
\* throws a TypeError when the argument is missing, undefined or null.
RECURSIVE InlineDirectives(_, _, _, _)
InlineDirectives(tokens, args, argumentsPointer, template) ==
    IF tokens = <<>> THEN Formatted(FALSE, <<template>> \o args)
    ELSE IF Head(tokens) = "%o"
    THEN InlineDirectives(Tail(tokens), args, argumentsPointer + 1,
                          template \o "%o")
    ELSE IF Head(tokens) = "%s"
    THEN IF \/ argumentsPointer + 1 > Len(args)
            \/ args[argumentsPointer + 1] \in {NullValue, UndefinedValue}
         THEN Formatted(TRUE, <<>>)
         ELSE InlineDirectives(Tail(tokens),
                               RemoveAt(args, argumentsPointer + 1),
                               argumentsPointer,
                               template \o toString(args[argumentsPointer + 1]))
    ELSE InlineDirectives(Tail(tokens), args, argumentsPointer,
                          template \o Head(tokens))

\* formatConsoleArguments(...args)
formatConsoleArguments(args) ==
    IF Len(args) = 0 THEN Formatted(FALSE, <<UndefinedValue>>)
    ELSE IF Len(args) = 1 \/ ~IsStringValue(Head(args))
    THEN Formatted(FALSE, args)
    ELSE InlineDirectives(Tokens(Head(args)), Tail(args), 0, "")

\* The reduce of formatWithStyles: '%c', then %s for a string and %o for
\* another value, separated by spaces.
RECURSIVE FormatString(_, _)
FormatString(inputArgs, i) ==
    IF i > Len(inputArgs) THEN ""
    ELSE (IF i > 1 THEN " " ELSE "")
         \o (IF IsStringValue(inputArgs[i]) THEN "%s" ELSE "%o")
         \o FormatString(inputArgs, i + 1)

FIREFOX_CONSOLE_DIMMING_COLOR == "color: rgba(124, 124, 124, 0.75)"
ANSI_STYLE_DIMMING_TEMPLATE == "<dim>%s"
ANSI_STYLE_DIMMING_TEMPLATE_WITH_COMPONENT_STACK == "<dim>%s %o"

\* formatWithStyles(inputArgs, style), for a style that is given and
\* messages without %c.
formatWithStyles(inputArgs, style) ==
    IF Len(inputArgs) = 0 THEN inputArgs
    ELSE IF IsStringValue(Head(inputArgs)) /\ HasDirective(Head(inputArgs))
    THEN <<"%c" \o Head(inputArgs), style>> \o Tail(inputArgs)
    ELSE <<"%c" \o FormatString(inputArgs, 1), style>> \o inputArgs

\* hook.renderers at the time of a call: whether the renderer has a work tag
\* map and whether its getCurrentFiber() returns a fiber.
ConsoleRenderer(workTagMap, current) ==
    [workTagMap |-> workTagMap, current |-> current]

RendererLists ==
    {<<>>,
     <<ConsoleRenderer(TRUE, FALSE)>>,
     <<ConsoleRenderer(TRUE, TRUE)>>,
     <<ConsoleRenderer(FALSE, TRUE), ConsoleRenderer(TRUE, TRUE)>>}

\* The first renderer that has a current fiber, or 0.
FirstWithFiber(rs) ==
    LET S == {i \in DOMAIN rs : rs[i].workTagMap /\ rs[i].current}
    IN  IF S = {} THEN 0 ELSE Least(S)

\* What the try block meets for the current fiber: whether a renderer
\* interface is attached, whether its onErrorOrWarning throws, whether the
\* fiber supports console tasks, and what the component stack computation
\* gives ("throws" when it throws).
StackThrows == "throws"

TryOutcomes ==
    {o \in [rendererInterface : BOOLEAN, onErrorOrWarningThrows : BOOLEAN,
            supportsConsoleTasks : BOOLEAN,
            componentStack : {StackThrows, "", ComponentStackString}] :
        /\ o.onErrorOrWarningThrows =>
                /\ o.rendererInterface
                /\ ~o.supportsConsoleTasks
                /\ o.componentStack = ""
        /\ o.supportsConsoleTasks => o.componentStack = ""}

\* The outcome that is given when no renderer has a current fiber.
NoOutcome ==
    [rendererInterface |-> FALSE, onErrorOrWarningThrows |-> FALSE,
     supportsConsoleTasks |-> FALSE, componentStack |-> ""]

\* What callers pass to console.error, console.trace and console.warn.
CallerArguments ==
    {<<>>,
     <<"Warning">>,
     <<ObjectValue>>,
     <<"Failed%s", "reason">>,
     <<"Failed%s", NullValue>>,
     <<"Failed%s", AnonymousStackString>>,
     <<"Warning", OtherStackString>>}

\* args[0] = firstArg.slice(0, firstArg.length - 2), when the first of
\* several arguments is a string that ends with %s.
StripFirst(args) ==
    LET tokens == Tokens(args[1])
    IN  IF /\ Len(args) > 1
           /\ IsStringValue(args[1])
           /\ tokens[Len(tokens)] = "%s"
        THEN [args EXCEPT ![1] = JoinTokens(SubSeq(tokens, 1, Len(tokens) - 1))]
        ELSE args

\* try { ... } catch (error) { setTimeout(() => { throw error; }, 0); }
\* finally { break; }
ConsoleTry(bodyThrew) ==
    [threw |-> FALSE, deferred |-> IF bodyThrew THEN 1 ELSE 0]

\* The override of console[method] that patchConsoleForErrorsAndWarnings
\* installs, called with args while hook.renderers is rs and the try block
\* meets o.
overrideMethod(method, args, rs, o) ==
    IF /\ isRunningDuringStrictModeInvocation
       /\ settings.hideConsoleLogsInStrictMode
    THEN consoleCall' = ConsoleCall(method, args, TRUE, <<>>, FALSE, 0, 0)
    ELSE
    LET alreadyHasComponentStack ==
            /\ method # "log"
            /\ settings.appendComponentStack
            /\ Len(args) > 0
            /\ IsStringValue(args[Len(args)])
            /\ isStringComponentStack(args[Len(args)])
        shouldShowInlineWarningsAndErrors ==
            /\ settings.showInlineWarningsAndErrors
            /\ method \in {"error", "warn"}
        found == FirstWithFiber(rs) # 0
        notifies ==
            found /\ shouldShowInlineWarningsAndErrors /\ o.rendererInterface
        notifyThrew == notifies /\ o.onErrorOrWarningThrows
        computes ==
            /\ found
            /\ ~notifyThrew
            /\ settings.appendComponentStack
            /\ ~o.supportsConsoleTasks
        stackThrew == computes /\ o.componentStack = StackThrows
        componentStack ==
            IF computes /\ ~stackThrew THEN o.componentStack ELSE ""
        replaces ==
            /\ componentStack # ""
            /\ alreadyHasComponentStack
            /\ areStackTracesEqual(args[Len(args)], componentStack)
        pushes == componentStack # "" /\ ~alreadyHasComponentStack
        injectedComponentStackAsFakeError == replaces \/ pushes
        args1 ==
            IF pushes THEN Append(args, FakeError)
            ELSE IF replaces
            THEN [StripFirst(args) EXCEPT ![Len(args)] = FakeError]
            ELSE args
        try == ConsoleTry(notifyThrew \/ stackThrew)
        styled == formatWithStyles(args1, FIREFOX_CONSOLE_DIMMING_COLOR)
        formatted == formatConsoleArguments(args1)
        notified == IF notifies THEN 1 ELSE 0
    IN  IF try.threw
        THEN consoleCall' =
                ConsoleCall(method, args, FALSE, <<>>, TRUE, 0, notified)
        ELSE IF ~isRunningDuringStrictModeInvocation
        THEN consoleCall' =
                ConsoleCall(method, args, FALSE, <<args1>>, FALSE,
                            try.deferred, notified)
        ELSE IF IS_FIREFOX
        THEN consoleCall' =
                ConsoleCall(method, args, FALSE,
                            <<IF injectedComponentStackAsFakeError
                              THEN [styled EXCEPT ![1] = styled[1] \o " %o"]
                              ELSE styled>>,
                            FALSE, try.deferred, notified)
        ELSE IF formatted.threw
        THEN consoleCall' =
                ConsoleCall(method, args, FALSE, <<>>, TRUE,
                            try.deferred, notified)
        ELSE consoleCall' =
                ConsoleCall(method, args, FALSE,
                            <<<<IF injectedComponentStackAsFakeError
                                THEN ANSI_STYLE_DIMMING_TEMPLATE_WITH_COMPONENT_STACK
                                ELSE ANSI_STYLE_DIMMING_TEMPLATE>>
                              \o formatted.args>>,
                            FALSE, try.deferred, notified)

\* A call of console[method](...args) on the patched console.
consoleMethodCall(method, args, rs, o) ==
    /\ overrideMethod(method, args, rs, o)
    /\ UNCHANGED <<targetConsole, unpatchConsoleCallbacks,
                   isRunningDuringStrictModeInvocation, settings, IS_FIREFOX,
                   patchedFrom>>

\* Before installHook: the console of the page, and the settings and the
\* build the hook will have.
ConsoleInit ==
    /\ targetConsole = NativeConsole
    /\ unpatchConsoleCallbacks = <<>>
    /\ isRunningDuringStrictModeInvocation = FALSE
    /\ settings \in InjectedSettings
    /\ IS_FIREFOX \in BOOLEAN
    /\ patchedFrom = NativeConsole
    /\ consoleCall = NoConsoleCall

ConsoleIdle ==
    /\ targetConsole = NativeConsole
    /\ unpatchConsoleCallbacks = <<>>
    /\ isRunningDuringStrictModeInvocation = FALSE
    /\ settings = DefaultSettings
    /\ IS_FIREFOX = FALSE
    /\ patchedFrom = NativeConsole
    /\ consoleCall = NoConsoleCall

\* ------------------------------------------------------------ installHook
\* The renderers handed to hook.inject, the events and handlers of the
\* emitter, and the roots the renderers commit.
RendererNames == {"dom", "art"}
Events == {"renderer", "operations"}
Handlers == {"h1", "h2"}
Roots == {"root1"}

\* What target.__REACT_DEVTOOLS_ATTACH__ is when hook.inject runs.
AttachKinds == {"absent", "returns", "throws"}

\* No own property __REACT_DEVTOOLS_GLOBAL_HOOK__ on the target.
NoHook == 0

\* map.set(key, value) on a map held as a function.
MapSet(map, key, value) ==
    [k \in DOMAIN map \cup {key} |-> IF k = key THEN value ELSE map[k]]

\* History: the last call on the installed hook.
InstallCall(op, arg, ret, threw) ==
    [op |-> op, arg |-> arg, ret |-> ret, threw |-> threw]

\* The state that one installHook call closes over, when it is created.
FreshClosure ==
    /\ uidCounter' = 0
    /\ renderers' = <<>>
    /\ rendererInterfaces' = {}
    /\ listeners' = <<>>
    /\ fiberRoots' = <<>>

\* Mutant: the slot is never found taken.
AlreadyInstalledNever == FALSE

\* target.hasOwnProperty('__REACT_DEVTOOLS_GLOBAL_HOOK__')
AlreadyInstalled == globalHook # NoHook

\* installHook(target): null when the slot is taken; otherwise a new hook is
\* made, console.error/trace/warn are overridden and the slot is defined.
installHook ==
    IF AlreadyInstalled
    THEN /\ installCall' = InstallCall("installHook", Undefined, Null, FALSE)
         /\ UNCHANGED <<globalHook, hooksCreated, consoleOverrides, uidCounter,
                        renderers, rendererInterfaces, listeners, fiberRoots,
                        injectCalls, targetConsole>>
    ELSE /\ hooksCreated' = hooksCreated + 1
         /\ FreshClosure
         /\ consoleOverrides' = consoleOverrides + 1
         /\ targetConsole' = patchConsoleForErrorsAndWarnings(targetConsole)
         /\ globalHook' = hooksCreated + 1
         /\ installCall' = InstallCall("installHook", Undefined, hooksCreated + 1, FALSE)
         /\ UNCHANGED injectCalls

\* hook.emit(event, data): the handlers invoked, in order.
emit(ls, event) == IF event \in DOMAIN ls THEN ls[event] ELSE <<>>

\* Mutant: the counter is set once and never incremented again.
NextUidNoIncrement(counter, map) == IF counter = 0 THEN 1 ELSE counter

\* const id = ++uidCounter
NextUid(counter, map) == counter + 1

\* hook.inject(renderer), where target.__REACT_DEVTOOLS_ATTACH__ is absent,
\* returns a renderer interface, or throws.
inject(renderer, attach) ==
    LET id == NextUid(uidCounter, renderers)
        registered == MapSet(renderers, id, renderer)
        attachThrows == attach = "throws"
    IN  /\ uidCounter' = id
        /\ renderers' = registered
        /\ rendererInterfaces' = IF attach = "returns"
                                 THEN rendererInterfaces \cup {id}
                                 ELSE rendererInterfaces
        /\ injectCalls' =
               Append(injectCalls,
                      [id |-> id, renderer |-> renderer,
                       returned |-> ~attachThrows,
                       emitted |-> IF attachThrows THEN 0 ELSE 1,
                       registered |-> /\ id \in DOMAIN registered
                                      /\ registered[id] = renderer,
                       earlier |-> renderers])
        /\ installCall' = InstallCall("inject", Undefined,
                                      IF attachThrows THEN Undefined ELSE id,
                                      attachThrows)
        /\ UNCHANGED <<globalHook, hooksCreated, consoleOverrides, listeners,
                       fiberRoots>>

\* hook.on(event, fn)
on(event, fn) ==
    /\ listeners' = MapSet(listeners, event, Append(emit(listeners, event), fn))
    /\ installCall' = InstallCall("on", Undefined, Undefined, FALSE)
    /\ UNCHANGED <<globalHook, hooksCreated, consoleOverrides, uidCounter,
                   renderers, rendererInterfaces, fiberRoots, injectCalls>>

\* Mutant: the last index that holds fn.
IndexOfLast(list, fn) ==
    IF \E k \in 1..Len(list) : list[k] = fn
    THEN CHOOSE k \in 1..Len(list) :
             list[k] = fn /\ \A j \in (k + 1)..Len(list) : list[j] # fn
    ELSE 0

\* array.indexOf(fn): the first index that holds fn, 0 when there is none.
IndexOf(list, fn) ==
    IF \E k \in 1..Len(list) : list[k] = fn
    THEN CHOOSE k \in 1..Len(list) :
             list[k] = fn /\ \A j \in 1..(k - 1) : list[j] # fn
    ELSE 0

\* array.splice(index, 1)
Splice(list, index) ==
    [k \in 1..(Len(list) - 1) |-> IF k < index THEN list[k] ELSE list[k + 1]]

\* hook.off(event, fn)
off(event, fn) ==
    /\ listeners' =
           IF event \notin DOMAIN listeners THEN listeners
           ELSE LET index == IndexOf(listeners[event], fn)
                    spliced == IF index # 0
                               THEN Splice(listeners[event], index)
                               ELSE listeners[event]
                IN  IF spliced = <<>>
                    THEN [e \in DOMAIN listeners \ {event} |-> listeners[e]]
                    ELSE [listeners EXCEPT ![event] = spliced]
    /\ installCall' = InstallCall("off", Undefined, Undefined, FALSE)
    /\ UNCHANGED <<globalHook, hooksCreated, consoleOverrides, uidCounter,
                   renderers, rendererInterfaces, fiberRoots, injectCalls>>

\* Mutant: the handler is called without the test for an interface, and the
\* call on undefined throws.
InterfaceHandlesUnguarded(id, handlerThrows) ==
    IF id \in rendererInterfaces THEN handlerThrows ELSE TRUE

\* if (rendererInterface != null) rendererInterface.handle...(...): whether
\* the call throws.
InterfaceHandles(id, handlerThrows) ==
    IF id \in rendererInterfaces THEN handlerThrows ELSE FALSE

\* Mutant: the map is made anew, with the set of this renderer id only.
getFiberRootsOfOneRenderer(roots, id) ==
    [i \in {id} |-> IF id \in DOMAIN roots THEN roots[id] ELSE {}]

\* hook.getFiberRoots(rendererID): the map after the call.
getFiberRoots(roots, id) ==
    IF id \in DOMAIN roots THEN roots ELSE MapSet(roots, id, {})

\* hook.onCommitFiberRoot(rendererID, root, priorityLevel), where the commit
\* is an unmount or not, and the renderer interface's handler throws or not.
onCommitFiberRoot_(id, root, isUnmounting, handlerThrows) ==
    LET roots == getFiberRoots(fiberRoots, id)
        isKnownRoot == root \in roots[id]
        mountedRoots == IF ~isKnownRoot /\ ~isUnmounting
                        THEN roots[id] \cup {root}
                        ELSE IF isKnownRoot /\ isUnmounting
                        THEN roots[id] \ {root}
                        ELSE roots[id]
    IN  /\ fiberRoots' = [roots EXCEPT ![id] = mountedRoots]
        /\ installCall' =
               InstallCall("onCommitFiberRoot", id, Undefined,
                           InterfaceHandles(id, handlerThrows))
        /\ UNCHANGED <<globalHook, hooksCreated, consoleOverrides, uidCounter,
                       renderers, rendererInterfaces, listeners, injectCalls>>

\* hook.onCommitFiberUnmount(rendererID, fiber)
onCommitFiberUnmount_(id, handlerThrows) ==
    /\ installCall' =
           InstallCall("onCommitFiberUnmount", id, Undefined,
                       InterfaceHandles(id, handlerThrows))
    /\ UNCHANGED <<globalHook, hooksCreated, consoleOverrides, uidCounter,
                   renderers, rendererInterfaces, listeners, fiberRoots,
                   injectCalls>>

InstallInit ==
    /\ globalHook = NoHook
    /\ hooksCreated = 0
    /\ consoleOverrides = 0
    /\ uidCounter = 0
    /\ renderers = <<>>
    /\ rendererInterfaces = {}
    /\ listeners = <<>>
    /\ fiberRoots = <<>>
    /\ injectCalls = <<>>
    /\ installCall = InstallCall("none", Undefined, Undefined, FALSE)


\* ------------------------------------------------------------ ReactDOMFiber
\* The selections a document can have, and the props of a host element.
Selections == {1, 2, 3}
ClassNames == {"x", "y"}
ChildrenProps == {"text", "more text", "element"}
HostProps == [className : ClassNames, children : ChildrenProps]

\* ReactBrowserEventEmitter.isEnabled() and setEnabled(enabled): the flag.
isEnabled(flag) == flag
setEnabled(enabled) == IF enabled = True THEN True ELSE False

\* ReactInputSelection.getSelectionInformation() and restoreSelection(info).
getSelectionInformation(selection) == selection
restoreSelection(info) == info

\* History: no commit is open, or one is, with what it found and saved.
Commit(phase, enabledBefore, captured, restored) ==
    [phase |-> phase, enabledBefore |-> enabledBefore, captured |-> captured,
     restored |-> restored]

\* prepareForCommit()
prepareForCommit ==
    /\ eventsEnabled' = isEnabled(emitterEnabled)
    /\ emitterEnabled' = setEnabled(False)
    /\ selectionInformation' = getSelectionInformation(domSelection)
    /\ commit' = Commit("committing", emitterEnabled, domSelection, Null)
    /\ UNCHANGED <<domSelection, hostUpdate>>

\* Mutant: the emitter is enabled after every commit.
ReenabledAlways(saved) == True

\* ReactBrowserEventEmitter.setEnabled(eventsEnabled)
Reenabled(saved) == setEnabled(saved)

\* resetAfterCommit()
resetAfterCommit ==
    /\ domSelection' = restoreSelection(selectionInformation)
    /\ selectionInformation' = Null
    /\ emitterEnabled' = Reenabled(eventsEnabled)
    /\ eventsEnabled' = Null
    /\ commit' = Commit("idle", commit.enabledBefore, commit.captured,
                        restoreSelection(selectionInformation))
    /\ UNCHANGED hostUpdate

\* typeof children === 'string' || typeof children === 'number'
IsText(children) == children # "element"

\* History: a prepareUpdate call, what it returned, whether it validated the
\* text nesting, and whether commitUpdate followed.
HostUpdate(oldProps, newProps, ret, validated, committed) ==
    [oldProps |-> oldProps, newProps |-> newProps, ret |-> ret,
     validated |-> validated, committed |-> committed]

NoUpdate == [ret |-> Undefined, committed |-> FALSE]

\* prepareUpdate(domElement, type, oldProps, newProps, hostContext)
prepareUpdate(oldProps, newProps) ==
    /\ hostUpdate' = HostUpdate(oldProps, newProps, True,
                                /\ DEV
                                /\ oldProps.children # newProps.children
                                /\ IsText(newProps.children),
                                FALSE)
    /\ UNCHANGED <<eventsEnabled, selectionInformation, emitterEnabled,
                   domSelection, commit>>

\* commitUpdate(domElement, type, oldProps, newProps, rootContainerInstance,
\* internalInstanceHandle): updateProperties is called with the props.
commitUpdate ==
    /\ hostUpdate' = [hostUpdate EXCEPT !.committed = TRUE]
    /\ UNCHANGED <<eventsEnabled, selectionInformation, emitterEnabled,
                   domSelection, commit>>

DomInit ==
    /\ eventsEnabled = Null
    /\ selectionInformation = Null
    /\ emitterEnabled = True
    /\ domSelection = 1
    /\ commit = Commit("idle", Null, Null, Null)
    /\ hostUpdate = NoUpdate


\* ---------------------------------- ReactDOM.render, unmountComponentAtNode
\* The nodes a caller passes as container: an element, the document, and the
\* document's documentElement.
ContainerNodes == {"div", "document", "html"}

\* containerNode.nodeType === DOCUMENT_NODE
IsDocument(node) == node = "document"
documentElement == "html"

\* !container._reactRootContainer, for undefined, null and a root.
HoldsRoot(field) == field \notin {Undefined, Null}

\* containerNode.nodeType === DOCUMENT_NODE ? containerNode.documentElement
\* : containerNode
ContainerOf(containerNode) ==
    IF IsDocument(containerNode) THEN documentElement
    ELSE containerNode

\* History of a node as the container argument: never passed, passed to a
\* render that returned and to no unmountComponentAtNode since, or passed
\* otherwise.
Untouched == "untouched"
Rendered == "rendered"
Touched == "touched"

\* History: the last ReactDOM call, the calls it made on the reconciler, how
\* many children it removed from the container, and whether it threw.
RenderCall(op, containerNode, calls, cleared, threw) ==
    [op |-> op, containerNode |-> containerNode, calls |-> calls,
     cleared |-> cleared, threw |-> threw]

NoRenderCall == RenderCall("none", "div", <<>>, 0, FALSE)

ReconcilerCall(fn, root) == [fn |-> fn, root |-> root]

\* warnAboutUnstableUse()
warnAboutUnstableUse == warnedUnstableUse' = TRUE

\* renderSubtreeIntoContainer(parentComponent, element, containerNode,
\* callback), where the reconciler call throws or returns. The children a
\* mounted root leaves in the container are one node.
renderSubtreeIntoContainer(containerNode, reconcilerThrows) ==
    LET container == ContainerOf(containerNode)
    IN  IF ~HoldsRoot(reactRootContainer[container])
        THEN LET root == rootsCreated + 1
             IN  /\ containerChildren' =
                        [containerChildren EXCEPT
                            ![container] = IF reconcilerThrows THEN 0 ELSE 1]
                 /\ reactRootContainer' =
                        IF reconcilerThrows THEN reactRootContainer
                        ELSE [reactRootContainer EXCEPT ![container] = root]
                 /\ rootsCreated' =
                        IF reconcilerThrows THEN rootsCreated ELSE root
                 /\ liveRoots' =
                        IF reconcilerThrows THEN liveRoots
                        ELSE liveRoots \cup {<<container, root>>}
                 /\ renderCall' =
                        RenderCall("render", containerNode,
                                   <<ReconcilerCall("mountContainer",
                                        IF reconcilerThrows THEN Null ELSE root)>>,
                                   containerChildren[container],
                                   reconcilerThrows)
        ELSE /\ renderCall' =
                    RenderCall("render", containerNode,
                               <<ReconcilerCall("updateContainer",
                                                reactRootContainer[container])>>,
                               0, reconcilerThrows)
             /\ UNCHANGED <<reactRootContainer, containerChildren,
                            rootsCreated, liveRoots>>

\* ReactDOM.render(element, container, callback)
render(containerNode, reconcilerThrows) ==
    /\ warnAboutUnstableUse
    /\ renderSubtreeIntoContainer(containerNode, reconcilerThrows)
    /\ containerHistory' =
            [containerHistory EXCEPT
                ![containerNode] =
                    IF reconcilerThrows /\ containerHistory[containerNode] # Rendered
                    THEN Touched ELSE Rendered]

\* ReactDOM.unmountComponentAtNode(container), where unmountContainer
\* throws or returns.
unmountComponentAtNode(container, reconcilerThrows) ==
    LET root == reactRootContainer[container]
    IN  /\ warnAboutUnstableUse
        /\ containerHistory' = [containerHistory EXCEPT ![container] = Touched]
        /\ IF HoldsRoot(root)
           THEN /\ reactRootContainer' =
                        [reactRootContainer EXCEPT ![container] = Null]
                /\ liveRoots' = liveRoots \ {<<container, root>>}
                /\ containerChildren' =
                        [containerChildren EXCEPT
                            ![container] =
                                IF reconcilerThrows THEN containerChildren[container]
                                ELSE 0]
                /\ renderCall' =
                        RenderCall("unmountComponentAtNode", container,
                                   <<ReconcilerCall("unmountContainer", root)>>,
                                   0, reconcilerThrows)
                /\ UNCHANGED rootsCreated
           ELSE /\ renderCall' =
                        RenderCall("unmountComponentAtNode", container, <<>>,
                                   0, FALSE)
                /\ UNCHANGED <<reactRootContainer, containerChildren,
                               rootsCreated, liveRoots>>

\* The page appends a child of its own to an element.
appendChild(container) ==
    /\ containerChildren' =
            [containerChildren EXCEPT ![container] = containerChildren[container] + 1]
    /\ UNCHANGED <<reactRootContainer, rootsCreated, liveRoots, containerHistory,
                   warnedUnstableUse, renderCall>>

\* A page whose elements may have children before React renders into them.
RenderInit ==
    /\ reactRootContainer = [node \in ContainerNodes |-> Undefined]
    /\ containerChildren \in [ContainerNodes -> 0 .. 1]
    /\ containerChildren["document"] = 1
    /\ rootsCreated = 0
    /\ liveRoots = {}
    /\ containerHistory = [node \in ContainerNodes |-> Untouched]
    /\ warnedUnstableUse = FALSE
    /\ renderCall = NoRenderCall

RenderIdle ==
    /\ reactRootContainer = [node \in ContainerNodes |-> Undefined]
    /\ containerChildren = [node \in ContainerNodes |-> 1]
    /\ rootsCreated = 0
    /\ liveRoots = {}
    /\ containerHistory = [node \in ContainerNodes |-> Untouched]
    /\ warnedUnstableUse = FALSE
    /\ renderCall = NoRenderCall

\* ------------------------------------------------- DOMChildrenOperations
\* DOM nodes are numbers and null is 0. A node argument is <<>> for null,
\* <<n>> for node n, and <<open, close>> for the two comments of a text
\* component (the array the code tests with Array.isArray).
NullNode == 0
NullRef == <<>>
IsArray(node) == Len(node) = 2

\* The children of parentNode when processUpdates is called: an element, a
\* text component (opening comment, text, closing comment), an element.
InitialChildNodes == <<1, 2, 3, 4, 5>>
TextComponent == <<2, 4>>
\* The nodes the updates bring: a lazy tree, a text node, parsed markup.
NewNode == 6
TextNode == 7
MarkupNode == 8

\* The updates a list is made of.
AfterNodes == {NullRef, <<1>>, TextComponent, <<5>>}
FromNodes == {<<1>>, TextComponent, <<5>>}
Update(type, content, fromNode, afterNode) ==
    [type |-> type, content |-> content, fromNode |-> fromNode,
     afterNode |-> afterNode]

UpdateKinds ==
    {Update("INSERT_MARKUP", <<NewNode>>, NullRef, a) : a \in AfterNodes}
        \cup {Update("MOVE_EXISTING", <<>>, f, a) :
                 f \in FromNodes, a \in AfterNodes}
        \cup {Update("SET_MARKUP", <<MarkupNode>>, NullRef, NullRef)}
        \cup {Update("TEXT_CONTENT", c, NullRef, NullRef) :
                 c \in {<<>>, <<TextNode>>}}
        \cup {Update("REMOVE_NODE", <<>>, f, NullRef) : f \in FromNodes}

\* The result of a DOM operation: the children after it, or an exception,
\* or (hung) a loop that does not end.
Done(nodes) == [nodes |-> nodes, threw |-> FALSE, hung |-> FALSE]
Threw(nodes) == [nodes |-> nodes, threw |-> TRUE, hung |-> FALSE]
Hung(nodes) == [nodes |-> nodes, threw |-> FALSE, hung |-> TRUE]

Contains(nodes, n) == \E i \in 1..Len(nodes) : nodes[i] = n

PositionOf(nodes, n) == CHOOSE i \in 1..Len(nodes) : nodes[i] = n

\* node.nextSibling: null for the last child and for a node that is no child.
nextSibling(nodes, n) ==
    IF Contains(nodes, n) /\ PositionOf(nodes, n) < Len(nodes)
    THEN nodes[PositionOf(nodes, n) + 1]
    ELSE NullNode

firstChild(nodes) == IF nodes = <<>> THEN NullNode ELSE nodes[1]

Without(nodes, n) == SelectSeq(nodes, LAMBDA x : x # n)

\* parentNode.insertBefore(childNode, referenceNode) of the DOM.
insertBefore(nodes, childNode, referenceNode) ==
    IF childNode = NullNode THEN Threw(nodes)
    ELSE IF referenceNode # NullNode /\ ~Contains(nodes, referenceNode)
    THEN Threw(nodes)
    ELSE IF referenceNode = childNode THEN Done(nodes)
    ELSE IF referenceNode = NullNode
    THEN Done(Append(Without(nodes, childNode), childNode))
    ELSE LET rest == Without(nodes, childNode)
             at == PositionOf(rest, referenceNode)
         IN  Done(SubSeq(rest, 1, at - 1) \o <<childNode>>
                      \o SubSeq(rest, at, Len(rest)))

\* parentNode.removeChild(childNode) of the DOM.
removeChildNode(nodes, childNode) ==
    IF childNode = NullNode \/ ~Contains(nodes, childNode) THEN Threw(nodes)
    ELSE Done(Without(nodes, childNode))

\* getNodeAfter(parentNode, node)
getNodeAfter(nodes, node) ==
    LET n == IF IsArray(node) THEN node[2]
             ELSE IF node = NullRef THEN NullNode ELSE node[1]
    IN  IF n # NullNode THEN nextSibling(nodes, n) ELSE firstChild(nodes)

insertChildAt(nodes, childNode, referenceNode) ==
    insertBefore(nodes, childNode, referenceNode)

\* DOMLazyTree.insertTreeBefore(parentNode, childTree, referenceNode)
insertLazyTreeChildAt(nodes, childTree, referenceNode) ==
    insertBefore(nodes, childTree[1], referenceNode)

\* moveDelimitedNodes: the while (true) loop, from node on; fuel turns left
\* before the loop is taken not to end.
RECURSIVE moveDelimitedNodes(_, _, _, _, _)
moveDelimitedNodes(nodes, node, closingComment, referenceNode, fuel) ==
    IF fuel = 0 THEN Hung(nodes)
    ELSE IF node = NullNode THEN Threw(nodes)
    ELSE LET nextNode == nextSibling(nodes, node)
             moved == insertChildAt(nodes, node, referenceNode)
         IN  IF moved.threw THEN moved
             ELSE IF node = closingComment THEN moved
             ELSE moveDelimitedNodes(moved.nodes, nextNode, closingComment,
                                     referenceNode, fuel - 1)

\* The turns after which a loop over the children is taken not to end.
Fuel(nodes) == 2 * Len(nodes) + 2

moveChild(nodes, childNode, referenceNode) ==
    IF IsArray(childNode)
    THEN moveDelimitedNodes(nodes, childNode[1], childNode[2], referenceNode,
                            Fuel(nodes))
    ELSE insertChildAt(nodes, childNode[1], referenceNode)

\* removeDelimitedNodes: the while (true) loop.
RECURSIVE removeDelimitedNodes(_, _, _, _)
removeDelimitedNodes(nodes, startNode, closingComment, fuel) ==
    IF fuel = 0 THEN Hung(nodes)
    ELSE LET node == nextSibling(nodes, startNode)
         IN  IF node = closingComment THEN Done(nodes)
             ELSE LET removed == removeChildNode(nodes, node)
                  IN  IF removed.threw THEN removed
                      ELSE removeDelimitedNodes(removed.nodes, startNode,
                                                closingComment, fuel - 1)

removeChild(nodes, childNode) ==
    IF IsArray(childNode)
    THEN LET inner == removeDelimitedNodes(nodes, childNode[1], childNode[2],
                                           Fuel(nodes))
             closed == removeChildNode(inner.nodes, childNode[2])
         IN  IF inner.threw \/ inner.hung THEN inner
             ELSE IF closed.threw THEN closed
             ELSE removeChildNode(closed.nodes, childNode[1])
    ELSE removeChildNode(nodes, childNode[1])

\* setInnerHTML(parentNode, content) and setTextContent(parentNode, content):
\* the children are replaced by what the content makes.
setInnerHTML(nodes, content) == Done(content)
setTextContent(nodes, content) == Done(content)

\* The body of the switch for one update.
ApplyUpdate(nodes, update) ==
    IF update.type = "INSERT_MARKUP"
    THEN insertLazyTreeChildAt(nodes, update.content,
                               getNodeAfter(nodes, update.afterNode))
    ELSE IF update.type = "MOVE_EXISTING"
    THEN moveChild(nodes, update.fromNode,
                   getNodeAfter(nodes, update.afterNode))
    ELSE IF update.type = "SET_MARKUP"
    THEN setInnerHTML(nodes, update.content)
    ELSE IF update.type = "TEXT_CONTENT"
    THEN setTextContent(nodes, update.content)
    ELSE IF update.type = "REMOVE_NODE"
    THEN removeChild(nodes, update.fromNode)
    ELSE Done(nodes)

\* Mutant: the loop steps over every second update.
NextIndexSkipping(index) == index + 2

\* k++
NextIndex(index) == index + 1

\* Where the call is: k is an index into updates (from 1) while the loop
\* runs; the other places are marked by these.
Returned == 0
ThrewAt(index) == 0 - index

\* One turn of the for loop of processUpdates: update k is applied.
processUpdates ==
    /\ k_ > 0
    /\ IF k_ > Len(updates)
       THEN /\ k_' = Returned
            /\ UNCHANGED <<childNodes, applied>>
       ELSE LET result == ApplyUpdate(childNodes, updates[k_])
            IN  /\ childNodes' = result.nodes
                /\ applied' = IF result.threw \/ result.hung THEN applied
                              ELSE Append(applied, k_)
                /\ k_' = IF result.threw \/ result.hung THEN ThrewAt(k_)
                        ELSE NextIndex(k_)
    /\ UNCHANGED updates

\* The lists of at most n updates.
UpdateLists(n) == UNION {[1..len -> UpdateKinds] : len \in 0..n}

OpsInit ==
    /\ childNodes = InitialChildNodes
    /\ updates \in UpdateLists(MaxUpdates)
    /\ k_ = 1
    /\ applied = <<>>

OpsIdle ==
    /\ childNodes = <<>>
    /\ updates = <<>>
    /\ k_ = Returned
    /\ applied = <<>>

\* ------------------------------------------------- replaceDelimitedText
\* A text component in its parent: an element, the opening comment, the text
\* nodes between the comments, the closing comment, an element. The text
\* nodes are several when the browser has split the text.
OpeningComment == 2
ClosingComment == 4
BetweenNodes == <<3, 9, 10>>
\* document.createTextNode(stringText)
CreatedTextNode == 7

TextNodes == Members(BetweenNodes) \cup {CreatedTextNode}

StringTexts == {"", "a", "b"}

\* The children with the first n text nodes between the comments.
DelimitedChildNodes(n) ==
    <<1, OpeningComment>> \o SubSeq(BetweenNodes, 1, n)
        \o <<ClosingComment, 5>>

\* History: the arguments of the last replaceDelimitedText call, the
\* children before it, and how it ended.
ReplaceCall(stringText, nodesBefore, ended) ==
    [stringText |-> stringText, nodesBefore |-> nodesBefore, ended |-> ended]

NoReplaceCall == ReplaceCall("", <<>>, "none")

Ended(result) ==
    IF result.threw THEN "threw" ELSE IF result.hung THEN "hung"
    ELSE "returned"

\* Mutant: the removal starts at the opening comment also when there is text.
RemovalStartAtOpening(openingComment, nodeAfterComment) == openingComment

\* The node after which removeDelimitedNodes removes, when stringText is not
\* empty: the first node after the opening comment, which keeps the text.
RemovalStart(openingComment, nodeAfterComment) == nodeAfterComment

\* replaceDelimitedText(openingComment, closingComment, stringText); the
\* __DEV__ report to ReactInstrumentation changes nothing here.
replaceDelimitedText(openingComment, closingComment, stringText) ==
    LET nodeAfterComment == nextSibling(childNodes, openingComment)
        result ==
            IF nodeAfterComment = closingComment
            THEN IF stringText # ""
                 THEN insertChildAt(childNodes, CreatedTextNode, nodeAfterComment)
                 ELSE Done(childNodes)
            ELSE IF stringText # ""
            THEN removeDelimitedNodes(
                    childNodes,
                    RemovalStart(openingComment, nodeAfterComment),
                    closingComment, Fuel(childNodes))
            ELSE removeDelimitedNodes(childNodes, openingComment,
                                      closingComment, Fuel(childNodes))
    IN  /\ childNodes' = result.nodes
        /\ nodeValue' =
                IF stringText = "" THEN nodeValue
                ELSE IF nodeAfterComment = closingComment
                THEN [nodeValue EXCEPT ![CreatedTextNode] = stringText]
                ELSE [nodeValue EXCEPT ![nodeAfterComment] = stringText]
        /\ replaceCall' = ReplaceCall(stringText, childNodes, Ended(result))
        /\ UNCHANGED <<updates, k_, applied>>

\* Before a replaceDelimitedText call: up to MaxBetween text nodes between
\* the comments, each with some text.
TextInit ==
    /\ \E n \in 0 .. MaxBetween : childNodes = DelimitedChildNodes(n)
    /\ nodeValue \in [TextNodes -> StringTexts]
    /\ \A node \in TextNodes :
            ~Contains(childNodes, node) => nodeValue[node] = ""
    /\ replaceCall = NoReplaceCall
    /\ updates = <<>>
    /\ k_ = Returned
    /\ applied = <<>>

TextIdle ==
    /\ nodeValue = [node \in TextNodes |-> ""]
    /\ replaceCall = NoReplaceCall

\* ------------------------------------------- the error-code transform
\* scripts/rollup/modules.js: the babel visitor's CallExpression exit. A
\* string is the sequence of its words; a message argument is the sequence of
\* the string literals its + expression joins.
Environments == {"test", "development", "production"}
Callees == {"require", "invariant", "warning", "other"}

MessageArguments ==
    {<< <<"Unknown">> >>,
     << <<"Expected", "element">> >>,
     << <<"Expected">>, <<"element">> >>}

\* evalToString(ast): the string the literals make when joined.
RECURSIVE evalToString(_)
evalToString(ast) ==
    IF ast = <<>> THEN <<>>
    ELSE Head(ast) \o evalToString(Tail(ast))

\* invertObject(codes.json): from message to error code.
errorMap == [msg \in {<<"Expected", "element">>} |-> "42"]

\* errorMap[errorMsgLiteral], undefined (NoCode) for a message not in the map.
NoCode == "undefined"
prodErrorId(errorMsgLiteral) ==
    IF errorMsgLiteral \in DOMAIN errorMap THEN errorMap[errorMsgLiteral]
    ELSE NoCode

\* A call expression of the program: what it calls, its message argument,
\* the visitor's SEEN_SYMBOL mark, and what stands in its place in the output
\* ("call": the call as written; "prodInvariant": the if statement with the
\* reactProdInvariant call and its code; "devOnly": the __DEV__-guarded call).
CallNode(callee, message) ==
    [callee |-> callee, message |-> message, seen |-> FALSE,
     output |-> "call", code |-> NoCode]

\* Mutant: the warning is printed in every environment.
WarnsAlways(env) == TRUE

\* process.env.NODE_ENV !== 'test'
Warns(env) == env # "test"

\* CallExpression.exit(path) for the i-th call of the program.
CallExpressionExit(i) ==
    LET node == program[i]
        errorMsgLiteral == evalToString(node.message)
    IN  IF node.seen
        THEN UNCHANGED <<program, warned, requiresInserted>>
        ELSE IF node.callee = "require"
        THEN /\ program' = [program EXCEPT ![i].seen = TRUE]
             /\ requiresInserted' = requiresInserted + 1
             /\ UNCHANGED warned
        ELSE IF node.callee = "invariant"
        THEN IF prodErrorId(errorMsgLiteral) = NoCode
             THEN /\ program' = [program EXCEPT ![i].seen = TRUE]
                  /\ warned' = IF Warns(NODE_ENV)
                               THEN Append(warned, errorMsgLiteral)
                               ELSE warned
                  /\ UNCHANGED requiresInserted
             ELSE /\ program' = [program EXCEPT
                                     ![i].seen = TRUE,
                                     ![i].output = "prodInvariant",
                                     ![i].code = prodErrorId(errorMsgLiteral)]
                  /\ UNCHANGED <<warned, requiresInserted>>
        ELSE IF node.callee = "warning"
        THEN /\ program' = [program EXCEPT ![i].seen = TRUE,
                                           ![i].output = "devOnly"]
             /\ UNCHANGED <<warned, requiresInserted>>
        ELSE UNCHANGED <<program, warned, requiresInserted>>

TransformInit ==
    /\ NODE_ENV \in Environments
    /\ \E len \in 1..MaxCalls :
           program \in [1..len -> {CallNode(c, msg) :
                                      c \in Callees, msg \in MessageArguments}]
    /\ warned = <<>>
    /\ requiresInserted = 0

TransformIdle ==
    /\ NODE_ENV = "development"
    /\ program = <<>>
    /\ warned = <<>>
    /\ requiresInserted = 0

\* hook.emit(event, data) with handlers that may unsubscribe: the call
\* listeners[event].map(fn => fn(data)), one turn of map at a time. map reads
\* the length once, then for each index below it calls the element the array
\* holds there now, if it holds one.
NotEmitting ==
    [pc |-> "none", event |-> "none", index |-> 0, len |-> 0,
     registered |-> <<>>, called |-> <<>>, unsubscribed |-> FALSE]

\* The call begins: nothing happens for an event without listeners.
emitCall(event) ==
    /\ emitting.pc # "map"
    /\ emitting' = [pc |-> IF emit(listeners, event) = <<>> THEN "returned"
                           ELSE "map",
                    event |-> event, index |-> 1,
                    len |-> Len(emit(listeners, event)),
                    registered |-> emit(listeners, event),
                    called |-> <<>>, unsubscribed |-> FALSE]
    /\ UNCHANGED installVars

\* k < len, the test of map's loop
MapContinues(index, len) == index <= len

\* One turn of map: the handler at the index is called, if the array still
\* has an element there; the handler returns, or calls hook.off(event, fn)
\* (itself, or through the function sub returned) and returns.
emitTurn ==
    /\ emitting.pc = "map"
    /\ LET array == emit(listeners, emitting.event)
           present == emitting.index <= Len(array)
           after(called, unsub) ==
               [emitting EXCEPT
                   !.index = @ + 1,
                   !.called = called,
                   !.unsubscribed = unsub,
                   !.pc = IF MapContinues(emitting.index + 1, emitting.len)
                          THEN "map" ELSE "returned"]
       IN  IF ~present
           THEN /\ emitting' = after(emitting.called, emitting.unsubscribed)
                /\ UNCHANGED installVars
           ELSE \/ /\ emitting' = after(Append(emitting.called,
                                               array[emitting.index]),
                                        emitting.unsubscribed)
                   /\ UNCHANGED installVars
                \/ \E fn \in Handlers :
                       /\ off(emitting.event, fn)
                       /\ emitting' = after(Append(emitting.called,
                                                   array[emitting.index]),
                                            TRUE)

EmitIdle == emitting = NotEmitting

LaterIdle ==
    InstallInit /\ DomInit /\ OpsIdle /\ TransformIdle /\ EmitIdle /\ ConsoleIdle /\ RenderIdle /\ TextIdle

\* ------------------------------------------------------------ SpecContext
ContextInit ==
    /\ contexts = [c \in Contexts |-> createContext(DefaultValue(c))]
    /\ valueCursor = [r \in Renderers |-> createCursor(Null)]
    /\ changedBitsCursor = [r \in Renderers |-> createCursor(0)]
    /\ valueStack = [r \in Renderers |-> <<>>]
    /\ currentlyRenderingFiber = [r \in Renderers |-> NoFiber]
    /\ lastContextDependency = [r \in Renderers |-> Null]
    /\ lastContextWithAllBitsObserved = [r \in Renderers |-> NoContext]
    /\ firstContextDependency = [r \in Renderers |-> [f \in ReadFibers |-> <<>>]]
    /\ active \in {{"primary"}, {"secondary"}}
    /\ open = [r \in Renderers |-> <<>>]
    /\ nested = [r \in Renderers |-> TRUE]
    /\ lastCall = PlainCall("init", NoContext, Undefined, FALSE, FALSE)

InitContext == ContextInit /\ CbIdle /\ HookIdle /\ TreeIdle /\ LaterIdle

\* Dependency records held by the fibers of renderer r.
DepsHeld(r) == Len(firstContextDependency[r]["f1"])

PushProviderStep(maxDepth) ==
    \E r \in active, f \in ProviderFibers, b \in PushBits :
        /\ Len(open[r]) < maxDepth
        /\ pushProvider(r, f, b)
        /\ UNCHANGED <<cb, hookVars, treeVars, laterVars>>

\* The caller nests properly: the provider popped is the last one pushed.
PopProviderStep ==
    /\ \E r \in active : Len(open[r]) > 0 /\ popProvider(r, Len(open[r]))
    /\ UNCHANGED <<cb, hookVars, treeVars, laterVars>>

\* The caller pops one of its pushed providers, in any order.
PopAnyProviderStep ==
    /\ \E r \in active : \E i \in 1..Len(open[r]) : popProvider(r, i)
    /\ UNCHANGED <<cb, hookVars, treeVars, laterVars>>

ResetStep ==
    /\ \E r \in active : resetContextDependences(r)
    /\ UNCHANGED <<cb, hookVars, treeVars, laterVars>>

PrepareStep ==
    /\ \E r \in active, f \in ReadFibers : prepareToReadContext(r, f)
    /\ UNCHANGED <<cb, hookVars, treeVars, laterVars>>

ReadStep(maxDeps) ==
    \E r \in active, c \in Contexts, b \in ObservedBitsArgs :
        /\ (~SkipsRecord(r, c, b) /\ ~ReadThrows(r, c, b)) => DepsHeld(r) < maxDeps
        /\ readContext(r, c, b)
        /\ UNCHANGED <<cb, hookVars, treeVars, laterVars>>

\* The provider stack, with the reads made under it.
NextContext ==
    \/ PushProviderStep(MaxDepth)
    \/ PopProviderStep
    \/ ResetStep
    \/ PrepareStep
    \/ ReadStep(MaxStackDeps)

SpecContext == InitContext /\ [][NextContext]_vars

\* The renders of a fiber: its reads, under a shallow provider stack.
NextRead ==
    \/ PushProviderStep(MaxReadDepth)
    \/ PopProviderStep
    \/ ResetStep
    \/ PrepareStep
    \/ ReadStep(MaxDeps)

SpecRead == InitContext /\ [][NextRead]_vars

\* A caller that has not broken the nesting yet pushes a provider.
PushWhileNestedStep ==
    \E r \in active, f \in ProviderFibers, b \in PushBits :
        /\ nested[r]
        /\ Len(open[r]) < MaxAnyDepth
        /\ pushProvider(r, f, b)
        /\ UNCHANGED <<cb, hookVars, treeVars, laterVars>>

\* Pushes and pops whose pops need not come in LIFO order. Once a pop has come
\* out of order the caller only unwinds: it pops what it has pushed.
NextAnyPop ==
    \/ PushWhileNestedStep
    \/ PopAnyProviderStep

SpecAnyPop == InitContext /\ [][NextAnyPop]_vars

\* ---------------------------------------------------------------- SpecBits
\* One calculateChangedBits call on every context and pair of values.
InitBits ==
    CbInit /\ ContextInit /\ active = {"primary"} /\ HookIdle /\ TreeIdle
    /\ LaterIdle

NextBits == CalculateStep

SpecBits == InitBits /\ [][NextBits]_vars

\* ---------------------------------------------------------------- SpecHook
InitHook ==
    HookInit /\ ContextInit /\ active = {"primary"} /\ CbIdle /\ TreeIdle
    /\ LaterIdle

InjectInternalsStep ==
    /\ \E injectThrows \in BOOLEAN, id \in RendererIDs :
          /\ errorLogs < MaxLogs
          /\ injectInternals(injectThrows, id)
    /\ UNCHANGED <<ctxVars, cb, treeVars, laterVars>>

OnScheduleRootStep ==
    /\ \E observerThrows \in BOOLEAN :
          errorLogs < MaxLogs /\ onScheduleRoot(observerThrows)
    /\ UNCHANGED <<ctxVars, cb, treeVars, laterVars>>

OnCommitRootStep ==
    /\ \E observerThrows \in BOOLEAN :
          errorLogs < MaxLogs /\ onCommitRoot(observerThrows)
    /\ UNCHANGED <<ctxVars, cb, treeVars, laterVars>>

OnCommitUnmountStep ==
    /\ \E observerThrows \in BOOLEAN :
          errorLogs < MaxLogs /\ onCommitUnmount(observerThrows)
    /\ UNCHANGED <<ctxVars, cb, treeVars, laterVars>>

NextHook ==
    \/ InjectInternalsStep
    \/ OnScheduleRootStep
    \/ OnCommitRootStep
    \/ OnCommitUnmountStep

SpecHook == InitHook /\ [][NextHook]_vars

\* ----------------------------------------------------------- SpecPropagate
\* One propagateContextChange call on every tree of the two families.
InitPropagate ==
    TreeInit /\ ContextInit /\ active = {"primary"} /\ CbIdle /\ HookIdle
    /\ LaterIdle

PropagateCallStep ==
    propagateContextChange /\ UNCHANGED <<ctxVars, cb, hookVars, laterVars>>

VisitFiberStep ==
    VisitFiber /\ UNCHANGED <<ctxVars, cb, hookVars, laterVars>>

NextPropagate ==
    \/ PropagateCallStep
    \/ VisitFiberStep

SpecPropagate == InitPropagate /\ [][NextPropagate]_vars

\* --------------------------------------------------------------- SpecWalk
\* The walk of one call, to its end, on every tree shape and kind of fiber;
\* every fiber waits for a time later than the render's.
InitWalkTrees ==
    \E parent \in Shapes(MaxWalkFibers) :
    \E kinds \in [3..MaxWalkFibers -> FiberKinds] :
    \E alts \in BOOLEAN, stale \in BOOLEAN :
        /\ ~alts => ~stale
        /\ tree = [n |-> MaxWalkFibers, parent |-> parent,
                   kind |-> [i \in 1..MaxWalkFibers |->
                               IF i = RootFiber THEN RootKind
                               ELSE IF i = WorkInProgress THEN ProviderKind
                               ELSE kinds[i]],
                   hasAlt |-> IF alts THEN 1..MaxWalkFibers ELSE {},
                   context |-> ChangedContext, changedBits |-> 1,
                   renderExpirationTime |-> 1]
        /\ expirationTime =
               [f \in (0 - MaxWalkFibers)..MaxWalkFibers |->
                   UniformTimes(MaxWalkFibers, parent, 2,
                                IF alts THEN 2 ELSE NoWork)[f].exp]
        /\ childExpirationTime =
               [f \in (0 - MaxWalkFibers)..MaxWalkFibers |->
                   UniformTimes(MaxWalkFibers, parent, 2,
                                IF alts THEN 2 ELSE NoWork)[f].ce]
        /\ returnOf = ReturnPointers(MaxWalkFibers, parent,
                                     IF alts THEN 1..MaxWalkFibers ELSE {},
                                     stale)

InitWalk ==
    /\ InitWalkTrees
    /\ walk = [pc |-> "called", fiber |-> NullFiber, visited |-> <<>>]
    /\ before = [exp |-> expirationTime, ce |-> childExpirationTime]
    /\ ContextInit /\ active = {"primary"} /\ CbIdle /\ HookIdle /\ LaterIdle

\* The call runs on: a loop turn that can be taken is taken.
SpecWalk == InitWalk /\ [][NextPropagate]_vars /\ WF_vars(NextPropagate)

\* ------------------------------------------------------------ SpecInstall
\* installHook on one target, and the use of the installed hook.
CoreIdle ==
    ContextInit /\ active = {"primary"} /\ CbIdle /\ HookIdle /\ TreeIdle

InitInstall == InstallInit /\ DomInit /\ OpsIdle /\ TransformIdle /\ EmitIdle /\ ConsoleIdle /\ RenderIdle /\ TextIdle /\ CoreIdle

InstallHookStep == installHook /\ UNCHANGED <<coreVars, domVars, opsVars, transformVars, emitVars, consoleRest, renderVars, textVars>>

HookInjectStep ==
    /\ globalHook # NoHook
    /\ Len(injectCalls) < MaxHookInjects
    /\ \E attach \in {"absent", "returns"} : inject("dom", attach)
    /\ UNCHANGED <<coreVars, domVars, opsVars, transformVars, emitVars, consoleVars, renderVars, textVars>>

OnStep ==
    /\ globalHook # NoHook
    /\ \E event \in Events, fn \in Handlers :
          /\ Len(emit(listeners, event)) < MaxHandlers
          /\ on(event, fn)
    /\ UNCHANGED <<coreVars, domVars, opsVars, transformVars, emitVars, consoleVars, renderVars, textVars>>

OffStep ==
    /\ globalHook # NoHook
    /\ \E event \in Events, fn \in Handlers : off(event, fn)
    /\ UNCHANGED <<coreVars, domVars, opsVars, transformVars, emitVars, consoleVars, renderVars, textVars>>

HookCommitRootStep ==
    /\ globalHook # NoHook
    /\ \E id \in RendererIDs, root \in Roots :
       \E isUnmounting \in BOOLEAN, handlerThrows \in BOOLEAN :
          onCommitFiberRoot_(id, root, isUnmounting, handlerThrows)
    /\ UNCHANGED <<coreVars, domVars, opsVars, transformVars, emitVars, consoleVars, renderVars, textVars>>

HookCommitUnmountStep ==
    /\ globalHook # NoHook
    /\ \E id \in RendererIDs, handlerThrows \in BOOLEAN :
          onCommitFiberUnmount_(id, handlerThrows)
    /\ UNCHANGED <<coreVars, domVars, opsVars, transformVars, emitVars, consoleVars, renderVars, textVars>>

NextInstall ==
    \/ InstallHookStep
    \/ HookInjectStep
    \/ OnStep
    \/ OffStep
    \/ HookCommitRootStep

SpecInstall == InitInstall /\ [][NextInstall]_vars

\* ------------------------------------------------------------- SpecInject
\* hook.inject calls on the installed hook.
InjectStep ==
    /\ globalHook # NoHook
    /\ Len(injectCalls) < MaxInjects
    /\ \E renderer \in RendererNames, attach \in AttachKinds :
          inject(renderer, attach)
    /\ UNCHANGED <<coreVars, domVars, opsVars, transformVars, emitVars, consoleVars, renderVars, textVars>>

NextInject ==
    \/ InstallHookStep
    \/ InjectStep

SpecInject == InitInstall /\ [][NextInject]_vars

\* ----------------------------------------------------------- SpecTolerate
\* The integration of ReactFiberDevToolsHook with a hook of any shape, and
\* commits reported to the installed hook.
InitTolerate ==
    /\ HookInit /\ InstallInit /\ DomInit /\ OpsIdle /\ TransformIdle /\ EmitIdle /\ ConsoleIdle /\ RenderIdle /\ TextIdle
    /\ ContextInit /\ active = {"primary"} /\ CbIdle /\ TreeIdle

TolerateInjectInternalsStep ==
    /\ \E injectThrows \in BOOLEAN :
          errorLogs < MaxLogs /\ injectInternals(injectThrows, 1)
    /\ UNCHANGED <<ctxVars, cb, treeVars, laterVars>>

NextTolerate ==
    \/ TolerateInjectInternalsStep
    \/ OnScheduleRootStep
    \/ OnCommitRootStep
    \/ OnCommitUnmountStep
    \/ InstallHookStep
    \/ HookInjectStep
    \/ HookCommitRootStep
    \/ HookCommitUnmountStep

SpecTolerate == InitTolerate /\ [][NextTolerate]_vars

\* ---------------------------------------------------------------- SpecDom
\* The DOM host config under a reconciler that completes a host element's
\* update and then commits: prepareForCommit, the mutations, resetAfterCommit.
InitDom ==
    /\ DomInit /\ InstallInit /\ OpsIdle /\ TransformIdle /\ EmitIdle /\ ConsoleIdle /\ RenderIdle /\ TextIdle
    /\ DEV \in BOOLEAN /\ HookUnused
    /\ ContextInit /\ active = {"primary"} /\ CbIdle /\ TreeIdle

PrepareForCommitStep ==
    /\ commit.phase = "idle"
    /\ prepareForCommit
    /\ UNCHANGED <<coreVars, installVars, opsVars, transformVars, emitVars, consoleVars, renderVars, textVars>>

ResetAfterCommitStep ==
    /\ commit.phase = "committing"
    /\ resetAfterCommit
    /\ UNCHANGED <<coreVars, installVars, opsVars, transformVars, emitVars, consoleVars, renderVars, textVars>>

\* Between commits the page and its user move the selection and other code
\* switches the emitter.
PageStep ==
    /\ commit.phase = "idle"
    /\ \E selection \in Selections, enabled \in {True, False} :
          /\ domSelection' = selection
          /\ emitterEnabled' = enabled
    /\ UNCHANGED <<eventsEnabled, selectionInformation, commit, hostUpdate>>
    /\ UNCHANGED <<coreVars, installVars, opsVars, transformVars, emitVars, consoleVars, renderVars, textVars>>

\* The mutations of a commit move the selection.
MutationStep ==
    /\ commit.phase = "committing"
    /\ \E selection \in Selections : domSelection' = selection
    /\ UNCHANGED <<eventsEnabled, selectionInformation, emitterEnabled, commit,
                   hostUpdate>>
    /\ UNCHANGED <<coreVars, installVars, opsVars, transformVars, emitVars, consoleVars, renderVars, textVars>>

\* The reconciler completes a host element whose description is rendered
\* again, with props that may equal the old ones.
PrepareUpdateStep ==
    /\ commit.phase = "idle"
    /\ \E oldProps \in HostProps, newProps \in HostProps :
          prepareUpdate(oldProps, newProps)
    /\ UNCHANGED <<coreVars, installVars, opsVars, transformVars, emitVars, consoleVars, renderVars, textVars>>

\* The commit applies the update the reconciler marked, which it does when
\* prepareUpdate returned true.
CommitUpdateStep ==
    /\ commit.phase = "committing"
    /\ hostUpdate.ret = True /\ ~hostUpdate.committed
    /\ commitUpdate
    /\ UNCHANGED <<coreVars, installVars, opsVars, transformVars, emitVars, consoleVars, renderVars, textVars>>

NextDom ==
    \/ PrepareForCommitStep
    \/ ResetAfterCommitStep
    \/ PageStep
    \/ MutationStep
    \/ PrepareUpdateStep
    \/ CommitUpdateStep

SpecDom == InitDom /\ [][NextDom]_vars

\* ------------------------------------------------------------ SpecUpdates
\* processUpdates on every list of updates of the bound.
InitUpdates ==
    OpsInit /\ TransformIdle /\ EmitIdle /\ ConsoleIdle /\ RenderIdle /\ TextIdle /\ InstallInit /\ DomInit /\ CoreIdle

ProcessUpdateStep ==
    /\ processUpdates
    /\ UNCHANGED <<coreVars, installVars, domVars, transformVars, emitVars, consoleVars, renderVars, textVars>>

NextUpdates == ProcessUpdateStep

SpecUpdates == InitUpdates /\ [][NextUpdates]_vars

\* ---------------------------------------------------------- SpecTransform
\* The visitor leaving the call expressions of a program, in any order and
\* again after a replacement, in each environment.
InitTransform ==
    TransformInit /\ OpsIdle /\ EmitIdle /\ ConsoleIdle /\ RenderIdle /\ TextIdle /\ InstallInit /\ DomInit /\ CoreIdle

CallExpressionExitStep ==
    /\ \E i \in 1..Len(program) : CallExpressionExit(i)
    /\ UNCHANGED NODE_ENV
    /\ UNCHANGED <<coreVars, installVars, domVars, opsVars, emitVars, consoleVars, renderVars, textVars>>

NextTransform == CallExpressionExitStep

SpecTransform == InitTransform /\ [][NextTransform]_vars

\* ---------------------------------------------------------- SpecRenderers
\* A primary and a secondary renderer in one process, each with its own
\* module state, interleaving their calls on the one context object A.
SharedContext == "A"

InitRenderers ==
    /\ contexts = [c \in Contexts |-> createContext(DefaultValue(c))]
    /\ valueCursor = [r \in Renderers |-> createCursor(Null)]
    /\ changedBitsCursor = [r \in Renderers |-> createCursor(0)]
    /\ valueStack = [r \in Renderers |-> <<>>]
    /\ currentlyRenderingFiber = [r \in Renderers |-> NoFiber]
    /\ lastContextDependency = [r \in Renderers |-> Null]
    /\ lastContextWithAllBitsObserved = [r \in Renderers |-> NoContext]
    /\ firstContextDependency = [r \in Renderers |-> [f \in ReadFibers |-> <<>>]]
    /\ active = Renderers
    /\ open = [r \in Renderers |-> <<>>]
    /\ nested = [r \in Renderers |-> TRUE]
    /\ lastCall = PlainCall("init", NoContext, Undefined, FALSE, FALSE)
    /\ CbIdle /\ HookIdle /\ TreeIdle /\ LaterIdle

\* The providers of the shared context: pendingProps.value and changedBits.
SharedProviders == {<<1, 3>>, <<2, 0>>}

RendererPushStep ==
    \E r \in active, p \in SharedProviders :
        /\ Len(open[r]) < MaxRendererDepth
        /\ pushProvider(r, [context |-> SharedContext, value |-> p[1]], p[2])
        /\ UNCHANGED <<cb, hookVars, treeVars, laterVars>>

RendererPrepareStep ==
    /\ \E r \in active, f \in ReadFibers :
           /\ currentlyRenderingFiber[r] = NoFiber
           /\ prepareToReadContext(r, f)
    /\ UNCHANGED <<cb, hookVars, treeVars, laterVars>>

RendererReadStep ==
    \E r \in active, b \in {0, Undefined} :
        /\ readContext(r, SharedContext, b)
        /\ UNCHANGED <<cb, hookVars, treeVars, laterVars>>

NextRenderers ==
    \/ RendererPushStep
    \/ PopProviderStep
    \/ RendererPrepareStep
    \/ RendererReadStep

SpecRenderers == InitRenderers /\ [][NextRenderers]_vars

\* --------------------------------------------------------------- SpecEmit
\* The emitter of the installed hook: on, off and emit, with handlers that
\* may unsubscribe a handler while they are called.
InitEmit == InitInstall

\* The handlers that are registered for an event at most: several for
\* "renderer", one for the other event.
ListenerBound(event) == IF event = "renderer" THEN MaxListeners ELSE 1

EmitOnStep ==
    /\ globalHook # NoHook
    /\ emitting.pc # "map"
    /\ \E event \in Events, fn \in Handlers :
          /\ Len(emit(listeners, event)) < ListenerBound(event)
          /\ on(event, fn)
    /\ UNCHANGED <<coreVars, domVars, opsVars, transformVars, emitVars, consoleVars, renderVars, textVars>>

EmitOffStep ==
    /\ globalHook # NoHook
    /\ emitting.pc # "map"
    /\ \E event \in Events, fn \in Handlers : off(event, fn)
    /\ UNCHANGED <<coreVars, domVars, opsVars, transformVars, emitVars, consoleVars, renderVars, textVars>>

EmitCallStep ==
    /\ globalHook # NoHook
    /\ \E event \in Events : emitCall(event)
    /\ UNCHANGED <<coreVars, domVars, opsVars, transformVars, consoleVars, renderVars, textVars>>

EmitTurnStep ==
    /\ emitTurn
    /\ UNCHANGED <<coreVars, domVars, opsVars, transformVars, consoleVars, renderVars, textVars>>

NextEmit ==
    \/ InstallHookStep
    \/ EmitOnStep
    \/ EmitOffStep
    \/ EmitCallStep
    \/ EmitTurnStep

SpecEmit == InitEmit /\ [][NextEmit]_vars

\* ------------------------------------------------------------ SpecConsole
\* The console of a page with the hook: installHook, React's setStrictMode
\* calls around double invocations, and calls of console.error, console.trace
\* and console.warn.
InitConsole ==
    ConsoleInit /\ InstallInit /\ DomInit /\ OpsIdle /\ TransformIdle
    /\ EmitIdle /\ RenderIdle /\ TextIdle /\ CoreIdle

SetStrictModeStep ==
    /\ globalHook # NoHook
    /\ \E id \in RendererIDs, isStrictMode \in BOOLEAN :
          setStrictMode(id, isStrictMode)
    /\ UNCHANGED <<coreVars, installVars, domVars, opsVars, transformVars,
                   emitVars, renderVars, textVars>>

ConsoleCallStep ==
    /\ globalHook # NoHook
    /\ \E method \in Members(ErrorsAndWarningsMethods),
          args \in CallerArguments, rs \in RendererLists, o \in TryOutcomes :
          /\ FirstWithFiber(rs) = 0 => o = NoOutcome
          /\ consoleMethodCall(method, args, rs, o)
    /\ UNCHANGED <<coreVars, installVars, domVars, opsVars, transformVars,
                   emitVars, renderVars, textVars>>

NextConsole ==
    \/ InstallHookStep
    \/ SetStrictModeStep
    \/ ConsoleCallStep

SpecConsole == InitConsole /\ [][NextConsole]_vars

\* ------------------------------------------------------------- SpecRender
\* ReactDOM.render and unmountComponentAtNode on the nodes of a page, with
\* reconciler calls that return or throw, and a page that appends children.
InitRender ==
    RenderInit /\ TextIdle /\ ConsoleIdle /\ EmitIdle /\ TransformIdle /\ OpsIdle
    /\ InstallInit /\ DomInit /\ CoreIdle

RenderFrame ==
    UNCHANGED <<coreVars, installVars, domVars, opsVars, transformVars,
                emitVars, consoleVars, textVars>>

RenderStep ==
    /\ \E containerNode \in ContainerNodes, reconcilerThrows \in BOOLEAN :
          /\ rootsCreated < MaxRoots
          /\ render(containerNode, reconcilerThrows)
    /\ RenderFrame

UnmountStep ==
    /\ \E container \in ContainerNodes, reconcilerThrows \in BOOLEAN :
          unmountComponentAtNode(container, reconcilerThrows)
    /\ RenderFrame

AppendChildStep ==
    /\ \E container \in ContainerNodes \ {"document"} :
          /\ containerChildren[container] < MaxChildren
          /\ appendChild(container)
    /\ RenderFrame

NextRender ==
    \/ RenderStep
    \/ UnmountStep
    \/ AppendChildStep

SpecRender == InitRender /\ [][NextRender]_vars

\* --------------------------------------------------------------- SpecText
\* replaceDelimitedText calls on a text component, one after the other.
InitText ==
    TextInit /\ RenderIdle /\ ConsoleIdle /\ EmitIdle /\ TransformIdle
    /\ InstallInit /\ DomInit /\ CoreIdle

ReplaceDelimitedTextStep ==
    /\ replaceCall.ended \in {"none", "returned"}
    /\ \E stringText \in StringTexts :
          replaceDelimitedText(OpeningComment, ClosingComment, stringText)
    /\ UNCHANGED <<coreVars, installVars, domVars, transformVars, emitVars,
                   consoleVars, renderVars>>

NextText == ReplaceDelimitedTextStep

SpecText == InitText /\ [][NextText]_vars

\* -------------------------------------------------------------- SpecRoots
\* Commits of two roots reported to the installed hook by two renderers.
CommittedRoots == {"root1", "root2"}

RootsCommitStep ==
    /\ globalHook # NoHook
    /\ \E id \in RendererIDs, root \in CommittedRoots :
       \E isUnmounting \in BOOLEAN, handlerThrows \in BOOLEAN :
          onCommitFiberRoot_(id, root, isUnmounting, handlerThrows)
    /\ UNCHANGED <<coreVars, domVars, opsVars, transformVars, emitVars, consoleVars, renderVars, textVars>>

NextRoots ==
    \/ InstallHookStep
    \/ HookInjectStep
    \/ RootsCommitStep

SpecRoots == InitInstall /\ [][NextRoots]_vars

\* ================================================================ claims
\* The index in open[r] of the innermost pushed provider of context c, or 0.
InnermostOpen(r, c) ==
    LET ks == {k \in 1..Len(open[r]) : open[r][k].context = c}
    IN  IF ks = {} THEN 0 ELSE CHOOSE k \in ks : \A j \in ks : j <= k

\* The value and the changed-bits installed by the innermost pushed provider
\* of c, and without one what createContext left.
InnermostValue(r, c) ==
    IF InnermostOpen(r, c) = 0 THEN DefaultValue(c)
    ELSE open[r][InnermostOpen(r, c)].value

InnermostBits(r, c) ==
    IF InnermostOpen(r, c) = 0 THEN Undefined
    ELSE open[r][InnermostOpen(r, c)].bits

\* C1 as stated: in a properly nested sequence, between pushProvider(fiber,
\* bits) and its popProvider(fiber) the context of every pushed provider holds
\* that provider's own pendingProps.value and bits.
C1_EveryOpenProviderInstalled ==
    \A r \in active : \A k \in 1..Len(open[r]) :
        /\ CurrentValueOf(contexts, r, open[r][k].context) = open[r][k].value
        /\ ChangedBitsOf(contexts, r, open[r][k].context) = open[r][k].bits

\* C1 as amended: in a properly nested sequence every context holds the value
\* and bits of its innermost provider that is pushed and not yet popped, and
\* right after popProvider(fiber) the context of fiber holds exactly the value
\* and changed-bits it held right before the matching pushProvider.
C1_PushInstallsPopRestores ==
    \A r \in active :
        /\ \A c \in Contexts :
              InnermostOpen(r, c) # 0 =>
                  /\ CurrentValueOf(contexts, r, c) = InnermostValue(r, c)
                  /\ ChangedBitsOf(contexts, r, c) = InnermostBits(r, c)
        /\ lastCall.op = "popProvider" =>
              /\ CurrentValueOf(contexts, r, lastCall.context) = lastCall.prevValue
              /\ ChangedBitsOf(contexts, r, lastCall.context) = lastCall.prevBits

\* C1 witness: a provider nested in a provider of the same context was popped,
\* and the context holds the outer provider's value and bits again.
C1_Witness ==
    \E r \in active :
        /\ lastCall.op = "popProvider"
        /\ Len(open[r]) = 1
        /\ open[r][1].context = lastCall.context
        /\ lastCall.prevValue = open[r][1].value
        /\ lastCall.prevBits = open[r][1].bits
        /\ lastCall.prevBits # Undefined

\* The records of dependency list deps cover the bits asked of context c.
Covered(deps, c, bits) ==
    \E k \in 1..Len(deps) :
        deps[k].context = c /\ BitAnd(deps[k].observedBits, bits) = bits

\* The list of fiber f gains a record in this step.
GainsRecord(r, f) ==
    Len(firstContextDependency'[r][f]) = Len(firstContextDependency[r][f]) + 1

\* The record the list of fiber f has gained.
GainedRecord(r, f) ==
    firstContextDependency'[r][f][Len(firstContextDependency'[r][f])]

\* C5 as stated: during one render the dependency list never gains a record
\* for a context whose requested bits are already covered by an earlier record
\* of the same render.
C5_NoRecordForCoveredBits ==
    [][\A r \in Renderers, f \in ReadFibers :
          GainsRecord(r, f) =>
              ~Covered(firstContextDependency[r][f],
                       GainedRecord(r, f).context,
                       GainedRecord(r, f).observedBits)]_vars

\* C5 as amended: during one render the dependency list never gains a record
\* for the context that was most recently recorded with all bits observed in
\* this render (lastContextWithAllBitsObserved), nor a record that observes
\* no bits.
C5_NoRecordForLastAllBitsContext ==
    [][\A r \in Renderers, f \in ReadFibers :
          GainsRecord(r, f) =>
              /\ GainedRecord(r, f).context # lastContextWithAllBitsObserved[r]
              /\ GainedRecord(r, f).observedBits # 0]_vars

\* C5 witness: in a render whose list holds an all-bits record of a context,
\* a further read of that context returned without appending a record.
C5_Witness ==
    \E r \in active :
        /\ lastCall.op = "readContext"
        /\ ~lastCall.appended /\ ~lastCall.threw
        /\ currentlyRenderingFiber[r] # NoFiber
        /\ lastContextWithAllBitsObserved[r] = lastCall.context
        /\ Len(firstContextDependency[r][currentlyRenderingFiber[r]]) = 2
        /\ firstContextDependency[r][currentlyRenderingFiber[r]][2].context
               = lastCall.context

\* C6: after a properly nested prefix of pushProvider/popProvider calls a
\* readContext(context, observedBits) that returns, returns the value of the
\* innermost provider of that context that is pushed and not yet popped, or
\* the context's default value when none is pushed, whatever observedBits is.
C6_ReadReturnsInnermostValue ==
    \A r \in active :
        (lastCall.op = "readContext" /\ ~lastCall.threw) =>
            lastCall.ret = InnermostValue(r, lastCall.context)

\* C6 witness: a read under two nested providers of the context returned the
\* inner provider's value, which is not the outer one's nor the default.
C6_Witness ==
    \E r \in active :
        /\ lastCall.op = "readContext" /\ ~lastCall.threw
        /\ Len(open[r]) = 2
        /\ open[r][1].context = lastCall.context
        /\ open[r][2].context = lastCall.context
        /\ open[r][1].value # open[r][2].value
        /\ lastCall.ret = open[r][2].value

\* C7: every readContext call made outside an active render (no fiber is
\* prepared by prepareToReadContext, or resetContextDependences has run)
\* signals an invariant violation instead of returning a value, for every
\* observedBits argument.
C7_ReadOutsideRenderThrows ==
    \A r \in active :
        (lastCall.op = "readContext" /\ currentlyRenderingFiber[r] = NoFiber)
            => lastCall.threw

\* C9 as stated: whether or not the pops come in LIFO order, popProvider(fiber)
\* writes into fiber's context only a value and changed-bits that were saved
\* from that same context.
C9_PopWritesOwnContextAnyOrder ==
    lastCall.op = "popProvider" =>
        /\ lastCall.fromValue = lastCall.context
        /\ lastCall.fromBits = lastCall.context

\* C9 as amended: while the pops come in LIFO order, popProvider(fiber) writes
\* into fiber's context only a value and changed-bits that were saved from
\* that same context.
C9_PopWritesOwnContextWhenNested ==
    \A r \in active :
        (lastCall.op = "popProvider" /\ nested[r]) =>
            /\ lastCall.fromValue = lastCall.context
            /\ lastCall.fromBits = lastCall.context

\* C9 witness: with providers of two different contexts pushed, the inner one
\* was popped in LIFO order.
C9_Witness ==
    \E r \in active :
        /\ lastCall.op = "popProvider" /\ nested[r]
        /\ Len(open[r]) = 1
        /\ open[r][1].context # lastCall.context
        /\ lastCall.fromValue = lastCall.context

\* Object.is(a, b) on the values of the model: the same value, NaN included,
\* and +0 and -0 apart.
SameValue(a, b) == a = b

\* C8 as stated: calculateChangedBits returns 0 without consulting the
\* comparator when the two values are the same value or both NaN; for 0 and
\* -0 it returns nonzero; and when the values differ and the context has no
\* comparator it returns MAX_SIGNED_31_BIT_INT.
C8_ZeroAndMinusZeroNonzero ==
    cb.state = "returned" =>
        /\ SameValue(cb.newValue, cb.oldValue) =>
              cb.result = 0 /\ ~cb.consulted
        /\ {cb.newValue, cb.oldValue} = {"+0", "-0"} => cb.result # 0
        /\ (~SameValue(cb.newValue, cb.oldValue) /\ ~cb.context.hasComparator)
              => cb.result = MAX_SIGNED_31_BIT_INT

\* C8 as amended: calculateChangedBits returns 0 without consulting the
\* comparator when the two values are the same value or both NaN; every other
\* pair, 0 and -0 included, is a change: with a comparator the result is what
\* the comparator returns for (oldValue, newValue), which may be 0, and with
\* no comparator it is MAX_SIGNED_31_BIT_INT, so nonzero.
C8_ObjectIsThenComparator ==
    cb.state = "returned" =>
        /\ SameValue(cb.newValue, cb.oldValue) =>
              cb.result = 0 /\ ~cb.consulted
        /\ (~SameValue(cb.newValue, cb.oldValue) /\ cb.context.hasComparator)
              => cb.consulted /\ cb.result = cb.context.comparatorResult
        /\ (~SameValue(cb.newValue, cb.oldValue) /\ ~cb.context.hasComparator)
              => cb.result = MAX_SIGNED_31_BIT_INT /\ ~cb.consulted

\* C8 witness: calculateChangedBits(context, 0, -0) on a context without a
\* comparator has returned all bits.
C8_Witness ==
    /\ cb.state = "returned"
    /\ cb.newValue = "+0" /\ cb.oldValue = "-0"
    /\ ~cb.context.hasComparator
    /\ cb.result = MAX_SIGNED_31_BIT_INT

\* C10: an error thrown by hook.inject, onScheduleFiberRoot, onCommitFiberRoot
\* or onCommitFiberUnmount never reaches the caller of injectInternals,
\* onScheduleRoot, onCommitRoot or onCommitUnmount.
C10_ObserverErrorNeverThrown ==
    hookCall.op \in {"injectInternals", "onScheduleRoot", "onCommitRoot",
                     "onCommitUnmount"}
        => ~hookCall.threw

\* C10 witness: after a successful injection onCommitFiberRoot threw, and
\* onCommitRoot caught it and returned.
C10_Witness ==
    /\ hookCall.op = "onCommitRoot"
    /\ hookCall.caught /\ ~hookCall.threw
    /\ rendererID # Null

\* ----------------------------------------- claims on propagateContextChange
\* The strict ancestors of position i in the tree.
Ancestors(i) == PathToRoot(tree.parent, tree.parent[i])

InSubtree(i) == WorkInProgress \in Ancestors(i)

\* A provider of the changed context below workInProgress.
NestedProvider(p) ==
    /\ InSubtree(p)
    /\ tree.kind[p].tag = "ContextProvider"
    /\ tree.kind[p].type = tree.kind[WorkInProgress].type

BelowNestedProvider(i) == \E p \in Ancestors(i) : NestedProvider(p)

\* Fiber i has a record with the changed context and overlapping bits.
HasMatchingRecord(i) ==
    \E k \in 1..Len(tree.kind[i].deps) :
        /\ tree.kind[i].deps[k].context = tree.context
        /\ BitAnd(tree.kind[i].deps[k].observedBits, tree.changedBits) # 0

\* The fibers the call has to mark.
ToMark ==
    {i \in 1..tree.n :
        InSubtree(i) /\ ~BelowNestedProvider(i) /\ HasMatchingRecord(i)}

\* Time t is not NoWork and no later than the render's expiration time.
Urgent(t) == t # NoWork /\ t <= tree.renderExpirationTime

\* C2: after the call every fiber in workInProgress's subtree, not below a
\* nested provider of the same context, that has a dependency record with the
\* same context and (observedBits & changedBits) != 0 has an expirationTime,
\* and its alternate's when an alternate exists, that is not NoWork and no
\* later than renderExpirationTime.
C2_MatchingFibersMarked ==
    walk.pc = "returned" =>
        \A i \in ToMark :
            /\ Urgent(expirationTime[i])
            /\ Alternate(i) # NullFiber => Urgent(expirationTime[Alternate(i)])

\* C2 witness: the call returned having marked a fiber that had no work, and
\* having lowered the later time of its alternate.
C2_Witness ==
    /\ walk.pc = "returned"
    /\ \E i \in ToMark :
          /\ before.exp[i] = NoWork
          /\ expirationTime[i] = tree.renderExpirationTime
          /\ Alternate(i) # NullFiber
          /\ before.exp[Alternate(i)] > tree.renderExpirationTime
          /\ expirationTime[Alternate(i)] = tree.renderExpirationTime

\* C3: on every tree the call changes the expirationTime of no fiber that is
\* a strict descendant of a nested provider of the same provider type, nor of
\* its alternate.
C3_NothingMarkedBelowNestedProvider ==
    walk.pc # "none" =>
        \A i \in 1..tree.n :
            BelowNestedProvider(i) =>
                /\ expirationTime[i] = before.exp[i]
                /\ expirationTime[0 - i] = before.exp[0 - i]

\* C3 witness: Provider(A) > Provider(A) > Consumer; the call returned and
\* the consumer, which reads the changed bits and had no work, has none.
C3_Witness ==
    /\ walk.pc = "returned"
    /\ \E i \in 1..tree.n :
          /\ BelowNestedProvider(i)
          /\ HasMatchingRecord(i)
          /\ before.exp[i] = NoWork
          /\ expirationTime[i] = NoWork

\* Child expiration time a is at least as urgent as time b.
Covers(a, b) == b = NoWork \/ (a # NoWork /\ a <= b)

\* Every fiber's childExpirationTime is at least as urgent as the
\* expirationTime of each of its descendants.
Summarised(exp, ce) ==
    \A d \in 1..tree.n : \A a \in Ancestors(d) : Covers(ce[a], exp[d])

\* Every fiber's childExpirationTime is at least as urgent as both the
\* expirationTime and the childExpirationTime of each of its children.
SummarisedPerChild(exp, ce) ==
    \A c \in 2..tree.n :
        /\ Covers(ce[tree.parent[c]], exp[c])
        /\ Covers(ce[tree.parent[c]], ce[c])

\* The fibers on the return chain of fiber f, up to the root.
RECURSIVE ReturnChain(_)
ReturnChain(f) ==
    IF returnOf[f] = NullFiber THEN {}
    ELSE {returnOf[f]} \cup ReturnChain(returnOf[f])

\* After the call the summarization holds and nothing above a marked fiber
\* is less urgent than the render.
SummarisedAfter ==
    /\ Summarised(expirationTime, childExpirationTime)
    /\ \A i \in ToMark : \A a \in ReturnChain(i) :
          Urgent(childExpirationTime[a])

C11_LoggedAtMostOnce == errorLogs <= 1

\* C12: for every sequence of installHook(target) calls on the same target
\* only the first call creates and installs a hook; every later call returns
\* null and leaves the installed hook, its renderers, listeners and fiber
\* roots, and the console methods unchanged, so that console.error, warn and
\* trace are wrapped exactly once.
C12_InstallHookIdempotent ==
    /\ [](hooksCreated <= 1 /\ consoleOverrides = hooksCreated)
    /\ [][(globalHook # NoHook /\ installCall'.op = "installHook") =>
              /\ installCall'.ret = Null
              /\ UNCHANGED <<globalHook, hooksCreated, consoleOverrides,
                             uidCounter, renderers, rendererInterfaces,
                             listeners, fiberRoots>>]_vars

\* C12 witness: installHook returned null on a target whose hook has a
\* renderer, a listener and a mounted root, and the console is wrapped once.
C12_Witness ==
    /\ installCall.op = "installHook" /\ installCall.ret = Null
    /\ globalHook = 1 /\ consoleOverrides = 1
    /\ renderers # <<>> /\ listeners # <<>>
    /\ \E id \in DOMAIN fiberRoots : fiberRoots[id] # {}

C14_AbsentFieldsTolerated ==
    /\ (hookCall.op = "onScheduleRoot" /\ hook.onScheduleFiberRoot # Function)
           => (hookCall.calls = 0 /\ ~hookCall.threw /\ ~hookCall.caught)
    /\ (hookCall.op = "onCommitRoot" /\ hook.onCommitFiberRoot # Function)
           => (hookCall.calls = 0 /\ ~hookCall.threw /\ ~hookCall.caught)
    /\ (hookCall.op = "onCommitUnmount" /\ hook.onCommitFiberUnmount # Function)
           => (hookCall.calls = 0 /\ ~hookCall.threw /\ ~hookCall.caught)
    /\ (installCall.op \in {"onCommitFiberRoot", "onCommitFiberUnmount"}
           /\ installCall.arg \notin rendererInterfaces)
           => ~installCall.threw

\* C14 witness: after an injection into a hook without onCommitFiberRoot,
\* onCommitRoot called nothing; and the installed hook took a commit for a
\* renderer id without interface and recorded the root.
C14_Witness ==
    /\ hook.present /\ hook.supportsFiber /\ ~hook.isDisabled
    /\ hook.onCommitFiberRoot # Function
    /\ rendererID # Null
    /\ hookCall.op = "onCommitRoot" /\ hookCall.calls = 0
    /\ errorLogs = 0
    /\ installCall.op = "onCommitFiberRoot"
    /\ installCall.arg \notin rendererInterfaces
    /\ installCall.arg \in DOMAIN fiberRoots
    /\ fiberRoots[installCall.arg] # {}

\* C15: for every alternating sequence prepareForCommit, resetAfterCommit,
\* ..., event dispatch is disabled at every point between a prepareForCommit
\* and its resetAfterCommit; after resetAfterCommit the emitter's enabled flag
\* equals its value immediately before that prepareForCommit, the selection
\* restored is the one captured by that prepareForCommit, and both saved
\* slots (eventsEnabled, selectionInformation) are null again.
C15_CommitBracketed ==
    /\ [](commit.phase = "committing" => emitterEnabled = False)
    /\ []((commit.phase = "idle" /\ commit.restored # Null) =>
             /\ commit.restored = commit.captured
             /\ eventsEnabled = Null /\ selectionInformation = Null)
    /\ [][(commit.phase = "committing" /\ commit'.phase = "idle") =>
              /\ emitterEnabled' = commit.enabledBefore
              /\ domSelection' = commit.captured]_vars

\* C15 witness: a commit that began with the emitter disabled and selection 2
\* has ended after the selection had moved: the emitter is disabled, the
\* selection is 2 again and both slots are null.
C15_Witness ==
    /\ commit.phase = "idle" /\ commit.restored = 2
    /\ commit.enabledBefore = False /\ emitterEnabled = False
    /\ domSelection = 2
    /\ eventsEnabled = Null /\ selectionInformation = Null

\* C17: prepareUpdate reports that no update is needed when newProps equal
\* oldProps, so that committing the same description twice in a row produces
\* no commitUpdate call on the second pass.
C17_NoUpdateForEqualProps ==
    (hostUpdate.ret # Undefined /\ hostUpdate.oldProps = hostUpdate.newProps)
        => (hostUpdate.ret = False /\ ~hostUpdate.committed)

\* The children after the first n updates of the list, each applied once to
\* what the one before it left.
RECURSIVE C16_AppliedInTurn(_)
C16_AppliedInTurn(n) ==
    IF n = 0 THEN InitialChildNodes
    ELSE ApplyUpdate(C16_AppliedInTurn(n - 1), updates[n]).nodes

\* C16: processUpdates applies the updates in list order: no update is
\* skipped or applied twice, update k is fully applied before update k+1
\* starts, and when the call returns every update of the list has been applied
\* exactly once, for every list of INSERT_MARKUP, MOVE_EXISTING, SET_MARKUP,
\* TEXT_CONTENT and REMOVE_NODE updates.
C16_UpdatesAppliedInOrder ==
    /\ \A i \in 1..Len(applied) : applied[i] = i
    /\ (k_ > 0) => (Len(applied) = k_ - 1)
    /\ (k_ < 0) => (Len(applied) = (0 - k_) - 1)
    /\ (k_ = Returned) => (Len(applied) = Len(updates))
    /\ (k_ >= 0 /\ updates # <<>>) =>
           (childNodes = C16_AppliedInTurn(Len(applied)))

\* C16 witness: a list of a move of the text component and a removal of an
\* element was processed to its end, both updates applied, in order.
C16_Witness ==
    /\ k_ = Returned
    /\ Len(updates) = 2
    /\ updates[1].type = "MOVE_EXISTING" /\ updates[1].fromNode = TextComponent
    /\ updates[2].type = "REMOVE_NODE"
    /\ applied = <<1, 2>>
    /\ childNodes = <<5, 2, 3, 4>>

\* The calls of invariant the visitor has left whose message is msg and has
\* no code in the error map.
C18_Unmatched(msg) ==
    {i \in 1..Len(program) :
        /\ program[i].seen
        /\ program[i].callee = "invariant"
        /\ evalToString(program[i].message) = msg
        /\ prodErrorId(msg) = NoCode}

C18_Warnings(msg) == {j \in 1..Len(warned) : warned[j] = msg}

\* C18 as stated: an invariant call whose message has no code is left as
\* written and a warning about its message is printed, in every environment.
C18_WarnsInEveryEnvironment ==
    \A i \in 1..Len(program) :
        i \in C18_Unmatched(evalToString(program[i].message)) =>
            /\ program[i].output = "call"
            /\ C18_Warnings(evalToString(program[i].message)) # {}

\* C18 (amended): an invariant call whose message has no code in the error
\* map is left in the output as written, with no production rewrite, in every
\* environment; one warning per such call is printed unless NODE_ENV is
\* 'test', where none is printed.
C18_FallsBackAndWarnsOutsideTest ==
    \A i \in 1..Len(program) :
        LET msg == evalToString(program[i].message)
        IN  i \in C18_Unmatched(msg) =>
                /\ program[i].output = "call"
                /\ program[i].code = NoCode
                /\ Cardinality(C18_Warnings(msg)) =
                       IF NODE_ENV = "test" THEN 0
                       ELSE Cardinality(C18_Unmatched(msg))

\* C18 witness: outside the test environment the visitor has left an
\* invariant call without a code and one with a code; the first is as
\* written and warned about, the second is rewritten.
C18_Witness ==
    /\ NODE_ENV = "production"
    /\ Len(program) = 2
    /\ 1 \in C18_Unmatched(<<"Unknown">>)
    /\ program[1].output = "call"
    /\ warned = << <<"Unknown">> >>
    /\ program[2].callee = "invariant"
    /\ program[2].message = << <<"Expected">>, <<"element">> >>
    /\ program[2].output = "prodInvariant"

\* The value and changed-bits fields of the context objects that renderer r
\* does not own.
C19_OtherSlots(ctxs, r) ==
    [c \in Contexts |->
        IF isPrimaryRenderer(r)
        THEN <<ctxs[c].currentValue2, ctxs[c].changedBits2>>
        ELSE <<ctxs[c].currentValue, ctxs[c].changedBits>>]

\* C19: when a primary and a secondary renderer interleave balanced
\* pushProvider/popProvider/readContext calls on the same context object, each
\* renderer's slot holds, and its readContext returns, the value installed by
\* that renderer's own innermost provider (or the default); primary calls
\* never modify _currentValue2/_changedBits2 and secondary calls never modify
\* _currentValue/_changedBits.
C19_OneSlotPerRenderer ==
    /\ [](\A r \in active :
             CurrentValueOf(contexts, r, SharedContext) =
                 InnermostValue(r, SharedContext))
    /\ [][\A r \in active :
             /\ \A b \in {0, Undefined} :
                    (readContext(r, SharedContext, b) /\ ~lastCall'.threw) =>
                        /\ lastCall'.ret = InnermostValue(r, SharedContext)
                        /\ contexts' = contexts
             /\ \A p \in SharedProviders :
                    pushProvider(r, [context |-> SharedContext,
                                     value |-> p[1]], p[2])
                        => C19_OtherSlots(contexts', r) = C19_OtherSlots(contexts, r)
             /\ (Len(open[r]) > 0 /\ popProvider(r, Len(open[r])))
                    => C19_OtherSlots(contexts', r) = C19_OtherSlots(contexts, r)
      ]_vars

\* C19 witness: both renderers have a provider of the context open with
\* different values, and a read of the secondary renderer has returned the
\* secondary provider's value, not the primary one's.
C19_Witness ==
    /\ Len(open["primary"]) = 1 /\ Len(open["secondary"]) = 2
    /\ open["primary"][1].value = 1
    /\ open["secondary"][2].value = 2
    /\ contexts[SharedContext].currentValue = 1
    /\ contexts[SharedContext].currentValue2 = 2
    /\ lastCall.op = "readContext" /\ ~lastCall.threw
    /\ lastCall.ret = 2

\* ------------------------------------------------- claims, third part
\* C21: propagateContextChange terminates on every finite fiber tree and
\* stops the whole walk once it is back at workInProgress: it visits each
\* fiber of workInProgress's subtree at most once and never visits
\* workInProgress's sibling, its alternate or any fiber outside the subtree.
C21_WalkStaysInSubtreeAndEnds ==
    /\ [](/\ \A a \in 1..Len(walk.visited) :
                /\ walk.visited[a] > 0
                /\ InSubtree(walk.visited[a])
                /\ \A b \in 1..Len(walk.visited) :
                       walk.visited[a] = walk.visited[b] => a = b
          /\ walk.pc = "loop" =>
                 (walk.fiber > 0 /\ InSubtree(walk.fiber)))
    /\ <>(walk.pc = "returned")
    /\ [][walk.pc # "returned"]_vars

\* C21 witness: the call has returned from a tree in which workInProgress has
\* a sibling; fibers below workInProgress were visited, the sibling was not.
C21_Witness ==
    /\ walk.pc = "returned"
    /\ tree.n >= 4
    /\ \E i \in 3..tree.n : tree.parent[i] = RootFiber
    /\ Len(walk.visited) >= 1
    /\ \E i \in 3..tree.n :
           /\ tree.parent[i] = RootFiber
           /\ \A a \in 1..Len(walk.visited) : walk.visited[a] # i

\* The fibers whose expirationTime the call may change: those it has to
\* mark, and their alternates.
C22_MayChange(f) ==
    LET i == IF f < 0 THEN 0 - f ELSE f
    IN  i \in ToMark

\* C22: the call leaves unchanged the expirationTime of every fiber without a
\* matching dependency record, of workInProgress and of every fiber outside
\* its subtree; with changedBits = 0 it changes no expirationTime and no
\* childExpirationTime; and it never replaces a non-NoWork expirationTime or
\* childExpirationTime by a later one.
C22_FrameOfPropagate ==
    walk.pc # "none" =>
        /\ \A f \in DOMAIN expirationTime :
               (f # 0 /\ ~C22_MayChange(f)) =>
                   expirationTime[f] = before.exp[f]
        /\ tree.changedBits = 0 =>
               /\ expirationTime = before.exp
               /\ childExpirationTime = before.ce
        /\ \A f \in DOMAIN expirationTime :
               before.exp[f] # NoWork =>
                   (expirationTime[f] # NoWork
                        /\ expirationTime[f] <= before.exp[f])
        /\ \A f \in DOMAIN childExpirationTime :
               before.ce[f] # NoWork =>
                   (childExpirationTime[f] # NoWork
                        /\ childExpirationTime[f] <= before.ce[f])

\* C22 witness: the call has returned having brought a matching fiber's time
\* forward, while a fiber of the subtree without a matching record kept its
\* own later time.
C22_Witness ==
    /\ walk.pc = "returned"
    /\ \E i \in ToMark :
           before.exp[i] = 2 /\ expirationTime[i] = 1
    /\ \E j \in 3..tree.n :
           /\ InSubtree(j) /\ j \notin ToMark
           /\ before.exp[j] = 2 /\ expirationTime[j] = 2

\* The dependency list of the fiber renderer r is rendering.
C23_List(r) == firstContextDependency[r][currentlyRenderingFiber[r]]

\* C23: a fiber's dependency list is rebuilt from scratch each render:
\* prepareToReadContext(fiber) leaves the list empty whatever the previous
\* render left, each read of the render that records appends its one record
\* at the end and changes nothing before it, and nothing else changes the
\* list; so while the render has recorded nothing the list is empty, and
\* otherwise lastContextDependency is its last record.
C23_ListRebuiltEachRender ==
    /\ [](\A r \in active :
             /\ (currentlyRenderingFiber[r] # NoFiber
                     /\ lastContextDependency[r] = Null)
                    => C23_List(r) = <<>>
             /\ lastContextDependency[r] # Null
                    => /\ currentlyRenderingFiber[r] # NoFiber
                       /\ lastContextDependency[r] = Len(C23_List(r)))
    /\ [][\A r \in active, f \in ReadFibers :
             LET old == firstContextDependency[r][f]
                 new == firstContextDependency'[r][f]
             IN  /\ (lastCall'.op = "prepareToReadContext"
                         /\ currentlyRenderingFiber'[r] = f) => new = <<>>
                 /\ new # old =>
                        \/ lastCall'.op = "prepareToReadContext" /\ new = <<>>
                        \/ /\ lastCall'.op = "readContext"
                           /\ lastCall'.appended
                           /\ currentlyRenderingFiber[r] = f
                           /\ Len(new) = Len(old) + 1
                           /\ SubSeq(new, 1, Len(old)) = old
                           /\ new[Len(new)].context = lastCall'.context
                 /\ (lastCall'.op = "readContext" /\ lastCall'.appended
                         /\ currentlyRenderingFiber[r] = f)
                        => Len(new) = Len(old) + 1
      ]_vars

\* C23 witness: prepareToReadContext has just returned true, so the previous
\* render had left records, and the list of the fiber is empty.
C23_Witness ==
    \E r \in active :
        /\ lastCall.op = "prepareToReadContext"
        /\ lastCall.ret = True
        /\ currentlyRenderingFiber[r] # NoFiber
        /\ C23_List(r) = <<>>

\* Record dep observes some of the changed bits installed for its context in
\* the slot of renderer r.
C24_Pending(r, dep) ==
    LET installed == ChangedBitsOf(contexts, r, dep.context)
    IN  installed > 0 /\ BitAnd(installed, dep.observedBits) # 0

\* C24: prepareToReadContext(fiber) returns true exactly when some dependency
\* record left by the fiber's previous render has a context whose installed
\* changed-bits, in this renderer's slot, overlap the record's observedBits,
\* and false otherwise, also when the fiber has no dependency records.
C24_PrepareReportsPendingContext ==
    [][\A r \in active, f \in ReadFibers :
          (lastCall'.op = "prepareToReadContext"
               /\ currentlyRenderingFiber'[r] = f) =>
              /\ lastCall'.ret \in {True, False}
              /\ lastCall'.ret = True <=>
                     \E n \in 1..Len(firstContextDependency[r][f]) :
                         C24_Pending(r, firstContextDependency[r][f][n])
      ]_vars

\* C24 witness: prepareToReadContext has returned true while the changed
\* bits installed for context A are 3 and none are installed for B.
C24_Witness ==
    \E r \in active :
        /\ lastCall.op = "prepareToReadContext"
        /\ lastCall.ret = True
        /\ ChangedBitsOf(contexts, r, "A") = 3
        /\ ChangedBitsOf(contexts, r, "B") <= 0

\* C25: hook.emit(event, data) invokes every handler that is registered for
\* the event when emit is called, exactly once each and in registration
\* order, even when a handler unsubscribes itself or another handler while
\* the emit is in progress.
C25_EmitCallsEveryRegisteredHandler ==
    emitting.pc = "returned" => emitting.called = emitting.registered

\* The number of registrations of fn for the event.
C26_Registrations(ls, event, fn) ==
    Cardinality({n \in 1..Len(emit(ls, event)) : emit(ls, event)[n] = fn})

\* The number of calls of fn in a list of calls.
C26_Calls(called, fn) ==
    Cardinality({n \in 1..Len(called) : called[n] = fn})

\* The list without its earliest element equal to fn.
RECURSIVE C26_WithoutEarliest(_, _)
C26_WithoutEarliest(list, fn) ==
    IF list = <<>> THEN <<>>
    ELSE IF Head(list) = fn THEN Tail(list)
    ELSE <<Head(list)>> \o C26_WithoutEarliest(Tail(list), fn)

\* C26: no event name in hook.listeners maps to an empty handler list;
\* on(event, fn) adds one registration of fn at the end; off(event, fn)
\* removes exactly the earliest registration of fn, leaves all other handlers
\* and their order unchanged, and is a no-op when fn or the event is not
\* registered; an emit whose handlers do not unsubscribe calls fn once per
\* registration, that is once per on call less the effective off calls.
C26_ListenersBookkeeping ==
    /\ [](\A event \in DOMAIN listeners : listeners[event] # <<>>)
    /\ []((emitting.pc = "returned" /\ ~emitting.unsubscribed) =>
              /\ emitting.called = emitting.registered
              /\ \A fn \in Handlers :
                     C26_Calls(emitting.called, fn) =
                         C26_Calls(emitting.registered, fn))
    /\ [][\A event \in Events, fn \in Handlers :
             /\ emitCall(event) =>
                    emitting'.registered = emit(listeners, event)
             /\ on(event, fn) =>
                    /\ emit(listeners', event) =
                           Append(emit(listeners, event), fn)
                    /\ \A other \in Events \ {event} :
                           emit(listeners', other) = emit(listeners, other)
             /\ off(event, fn) =>
                    /\ emit(listeners', event) =
                           C26_WithoutEarliest(emit(listeners, event), fn)
                    /\ C26_Registrations(listeners, event, fn) = 0
                           => listeners' = listeners
                    /\ \A other \in Events \ {event} :
                           emit(listeners', other) = emit(listeners, other)
      ]_vars

\* C26 witness: with fn registered twice around another handler, one off has
\* removed the earlier registration, and an emit has then called the other
\* handler and fn, in that order.
C26_Witness ==
    /\ emitting.pc = "returned" /\ ~emitting.unsubscribed
    /\ emitting.event = "renderer"
    /\ installCall.op = "off"
    /\ emitting.called = <<"h2", "h1">>
    /\ listeners["renderer"] = <<"h2", "h1">>

\* getFiberRoots(rendererID) of the map roots, without creating the set.
C27_RootsOf(roots, id) == IF id \in DOMAIN roots THEN roots[id] ELSE {}

\* C27: after every onCommitFiberRoot(rendererID, root) call, for any
\* sequence of commits, root is a member of getFiberRoots(rendererID) exactly
\* when that commit was not an unmount; the membership of every other root
\* and the root sets of the other renderer ids are unchanged.
C27_MountedRootsTracked ==
    [][\A id \in RendererIDs, root \in CommittedRoots :
       \A isUnmounting \in BOOLEAN, handlerThrows \in BOOLEAN :
          onCommitFiberRoot_(id, root, isUnmounting, handlerThrows) =>
              /\ root \in C27_RootsOf(fiberRoots', id) <=> ~isUnmounting
              /\ C27_RootsOf(fiberRoots', id) \ {root} =
                     C27_RootsOf(fiberRoots, id) \ {root}
              /\ \A other \in RendererIDs \ {id} :
                     /\ C27_RootsOf(fiberRoots', other) =
                            C27_RootsOf(fiberRoots, other)
                     /\ other \in DOMAIN fiberRoots
                            => other \in DOMAIN fiberRoots'
      ]_vars

\* C27 witness: renderer 1 mounted both roots and unmounted root1 again,
\* renderer 2 still has root1 mounted, and the last commit was renderer 1's.
C27_Witness ==
    /\ installCall.op = "onCommitFiberRoot" /\ installCall.arg = 1
    /\ C27_RootsOf(fiberRoots, 1) = {"root2"}
    /\ C27_RootsOf(fiberRoots, 2) = {"root1"}

\* C28: an injectInternals call returns false exactly when there is no global
\* hook, returns true without calling hook.inject when the hook is disabled
\* or does not support fibers, returns true when hook.inject throws, and in
\* each of these cases stores no callback and no renderer id; as long as no
\* injection has succeeded, onScheduleRoot, onCommitRoot and onCommitUnmount
\* invoke no hook callback.
C28_Failed ==
    /\ hookCall.op = "injectInternals"
    /\ (hookCall.ret = False \/ hookCall.calls = 0 \/ hookCall.caught)

C28_NoCallback ==
    hookCall.op \in {"onScheduleRoot", "onCommitRoot", "onCommitUnmount"}
        => hookCall.calls = 0

C28_FailedInjectionStoresNothing ==
    /\ [](hookCall.op = "injectInternals" =>
            /\ (hookCall.ret = False) <=> ~hook.present
            /\ hook.present /\ (hook.isDisabled \/ ~hook.supportsFiber) =>
                    hookCall.ret = True /\ hookCall.calls = 0
            /\ hookCall.caught => hookCall.ret = True /\ ~hookCall.threw)
    /\ [][C28_Failed' =>
            UNCHANGED <<onScheduleFiberRoot, onCommitFiberRoot,
                        onCommitFiberUnmount, rendererID>>]_vars
    /\ [](rendererID = Null => C28_NoCallback)

\* C28 as stated, for the call that follows: after an injectInternals call
\* that did not inject, the next call invokes no callback of the hook.
C28_NoCallbackAfterFailedInjection ==
    [][C28_Failed => C28_NoCallback']_vars

\* hook.inject threw, nothing was stored, and a later onCommitRoot found no
\* callback although the hook has one.
C28_Witness ==
    /\ hookCall.op = "onCommitRoot"
    /\ hookCall.calls = 0
    /\ rendererID = Null
    /\ errorLogs > 0
    /\ hook.onCommitFiberRoot = Function

\* C29: for every sequence of setStrictMode calls, no console method ever
\* has a strict-mode override around another strict-mode override, and after
\* a setStrictMode(id, false) group, groupCollapsed, info and log are the
\* functions they were before the console was patched, with no override left.
C29_Overrides(fn) ==
    Cardinality({i \in DOMAIN fn : fn[i] = "strictOverride"})

C29_PatchedOnceAndUndone ==
    /\ \A method \in ConsoleMethods : C29_Overrides(targetConsole[method]) <= 1
    /\ ~isRunningDuringStrictModeInvocation =>
            \A method \in Members(StrictModeMethods) :
                /\ targetConsole[method] = patchedFrom[method]
                /\ C29_Overrides(targetConsole[method]) = 0

\* A setStrictMode(id, false) that ran the four callbacks of a patched
\* console.
C29_Witness ==
    /\ consoleCall.method = "setStrictMode"
    /\ consoleCall.args = <<"false">>
    /\ consoleCall.callbacks = Len(StrictModeMethods)
    /\ targetConsole["log"] = NativeMethod("log")

\* C30 as stated: every call of the patched console.error, console.warn or
\* console.trace that the strict-mode setting does not hide gives its
\* arguments to the original method exactly once and throws nothing to its
\* caller.
C30_ForwardsExactlyOnce ==
    /\ consoleCall.method \in Members(ErrorsAndWarningsMethods)
    /\ ~consoleCall.hidden
    => Len(consoleCall.forwarded) = 1 /\ ~consoleCall.threw

\* ------------------------------------------------- claims, fourth part
\* The calls so far were all on containerNode.
OnlyUsed(containerNode) ==
    \A node \in ContainerNodes \ {containerNode} :
        containerHistory[node] = Untouched

\* C31 as stated: in a sequence of calls on one container, render calls
\* mountContainer exactly when it is the first render or the first render
\* after an unmountComponentAtNode, and updateContainer otherwise.
C31_MountsExactlyAfterUnmount ==
    [][\A containerNode \in ContainerNodes, reconcilerThrows \in BOOLEAN :
          render(containerNode, reconcilerThrows) /\ OnlyUsed(containerNode)
          => (renderCall'.calls[1].fn = "mountContainer"
                <=> containerHistory[containerNode] # Rendered)]_vars

\* C32 as stated: in a sequence of calls on one container, a root that was
\* mounted is given to unmountContainer by unmountComponentAtNode, so no
\* root is live after the call.
C32_UnmountsTheMountedRoot ==
    /\ renderCall.op = "unmountComponentAtNode"
    /\ OnlyUsed(renderCall.containerNode)
    => liveRoots = {}

\* C33: a replaceDelimitedText call on a text component with no, one or
\* several text nodes between its comments returns; after it there is
\* nothing between the comments when the text is empty, and otherwise one
\* text node, which holds the text; the comments and the nodes before and
\* after them are where they were.
C33_Between(nodes) ==
    SubSeq(nodes, PositionOf(nodes, OpeningComment) + 1,
           PositionOf(nodes, ClosingComment) - 1)

C33_UpToOpening(nodes) == SubSeq(nodes, 1, PositionOf(nodes, OpeningComment))

C33_FromClosing(nodes) ==
    SubSeq(nodes, PositionOf(nodes, ClosingComment), Len(nodes))

C33_OneTextNodeOrNone ==
    replaceCall.ended # "none" =>
        /\ replaceCall.ended = "returned"
        /\ Contains(childNodes, OpeningComment)
        /\ Contains(childNodes, ClosingComment)
        /\ C33_UpToOpening(childNodes) = C33_UpToOpening(replaceCall.nodesBefore)
        /\ C33_FromClosing(childNodes) = C33_FromClosing(replaceCall.nodesBefore)
        /\ IF replaceCall.stringText = ""
           THEN C33_Between(childNodes) = <<>>
           ELSE /\ Len(C33_Between(childNodes)) = 1
                /\ C33_Between(childNodes)[1] \in TextNodes
                /\ nodeValue[C33_Between(childNodes)[1]] = replaceCall.stringText

\* A call with a text that replaced two text nodes by one.
C33_Witness ==
    /\ replaceCall.ended = "returned"
    /\ replaceCall.stringText = "a"
    /\ Len(C33_Between(replaceCall.nodesBefore)) = 2
    /\ Len(C33_Between(childNodes)) = 1

\* C34 as stated, for the first update of a list: an INSERT_MARKUP or
\* MOVE_EXISTING update makes its child (for a text component: the opening
\* comment, the text and the closing comment, in this order) the first
\* children when afterNode is null, and the children right after afterNode
\* (after the closing comment of a text component) otherwise. Updates that
\* move a child after itself are left out.
C34_Moved(update) ==
    IF update.type = "MOVE_EXISTING" /\ IsArray(update.fromNode)
    THEN <<OpeningComment>> \o C33_Between(InitialChildNodes)
            \o <<ClosingComment>>
    ELSE IF update.type = "INSERT_MARKUP" THEN update.content
    ELSE update.fromNode

C34_Anchor(update) ==
    IF update.afterNode = NullRef THEN NullNode
    ELSE update.afterNode[Len(update.afterNode)]

C34_PlacedAt(nodes, moved, anchor) ==
    \E p \in 1 .. Len(nodes) :
        /\ p + Len(moved) - 1 <= Len(nodes)
        /\ SubSeq(nodes, p, p + Len(moved) - 1) = moved
        /\ IF anchor = NullNode THEN p = 1 ELSE p > 1 /\ nodes[p - 1] = anchor

C34_ChildPlacedAfterNode ==
    /\ applied = <<1>>
    /\ k_ = 2
    /\ updates[1].type \in {"INSERT_MARKUP", "MOVE_EXISTING"}
    /\ updates[1].fromNode # updates[1].afterNode
    => C34_PlacedAt(childNodes, C34_Moved(updates[1]), C34_Anchor(updates[1]))

====
